---- MODULE Spec2Model ----
(***************************************************************************)
(* GitStarRecall: the embedding worker pool (src/embeddings/WorkerPool.ts) *)
(* and the local persistence layer (src/db/client.ts) as state machines.   *)
(*                                                                         *)
(* SpecPool  - one EmbeddingWorkerPool instance, its overlapping           *)
(*             embedBatch calls and the workers answering them.            *)
(* SpecDb    - one LocalDatabase instance, its overlapping mutating calls, *)
(*             the similarity cache and the snapshot in stable storage.    *)
(* SpecStored - the same database loaded with the rows of an earlier       *)
(*             session, under the deletes of a sync.                       *)
(* SpecSync  - buildSyncPlan (src/sync/plan.ts) applied to a local and a   *)
(*             remote snapshot of the starred repositories.                *)
(* SpecRun   - the embedding runs of the usage page (generateEmbeddings,   *)
(*             src/pages/UsagePage.tsx) over one database; SpecRunFair is  *)
(*             SpecRun with every started step carried on and runs started *)
(*             again and again.                                            *)
(* SpecChat  - the chat tables of a stored database: the open that brings  *)
(*             them to the canonical shape, and the writes of sessions and *)
(*             messages with their heal and retry.                         *)
(* SpecCycle - a sync of the usage page step by step: records, READMEs,    *)
(*             chunk deletes and chunk writes, each its own transaction.   *)
(* SpecHeal  - upsertEmbeddings on a database whose chunks come and go.    *)
(* SpecEmbedder - one Embedder, its requests and the worker's responses.   *)
(* SpecPoolFair - SpecPool with every worker answering in the end.         *)
(* SpecGenerations - two embedding runs of the page over one database.     *)
(* SpecReadmes - fetchReadmes (src/github/client.ts) and its workers.      *)
(* SpecSplit - the loop of splitIntoChunks (src/chunking/chunker.ts);      *)
(*             SpecSplitFair is SpecSplit with the loop carried on.        *)
(* The other specifications (checksums, search, chunks, pipeline, message  *)
(* orders, vectors, clearing) apply one function or handler each to inputs *)
(* drawn from bounded sets.                                                *)
(***************************************************************************)
EXTENDS Integers, Sequences, FiniteSets, TLC

\* ------------------------------------------------------------------------
\* Bounds of the model
\* ------------------------------------------------------------------------
\* texts queued in the pool at one time, over all overlapping calls
MaxPendingTexts == 3
\* the cumulative error count the workers' answers may drive the pool to
MaxErrors == 2
\* the ticks the clock of the persistence layer runs through
MaxClock == 2
\* the ticks the clock runs through while embeddings wait for their checkpoint
MaxWaitClock == 3

\* ------------------------------------------------------------------------
\* Program constants (WorkerPool.ts:35-38)
\* ------------------------------------------------------------------------
DEFAULT_POOL_SIZE == 2
DEFAULT_MAX_QUEUE_SIZE == 1024
DEFAULT_DOWNSHIFT_ERROR_THRESHOLD == 3
DEFAULT_WORKER_BATCH_SIZE == 8

\* the option values a pool is constructed with; 0 stands for an option
\* that is missing or not a positive number
PoolSizeOptions == {0, 1}
ThresholdOptions == {2}
BatchSizeOptions == {1, 2}
QueueSizeOptions == {3}

CallIds == {1, 2}

Null == "null"
NoVector == 0
NotExecuted == "embedding job was not executed"
MissingItem == "missing batch item result"

\* what one text can come back as from a worker (Embedder.ts:88-95):
\* a vector, an error message, or neither
ItemErrors == {"out of memory while running model", "bad input text"}
ThrowMessages == {"Allocation failed"}

\* ------------------------------------------------------------------------
\* Program constants and inputs of the persistence layer (client.ts:18-19)
\* ------------------------------------------------------------------------
DEFAULT_EMBEDDING_CHECKPOINT_EVERY_EMBEDDINGS == 256
DEFAULT_EMBEDDING_CHECKPOINT_EVERY_MS == 3000

\* the checkpoint policy a database is opened with; the time unit of the
\* model is one tick of the clock
EveryEmbeddingsOptions == {3}
EveryMsOptions == {1}

\* the ids a store can hold: repository 2, its chunk 2 and the embedding 2
\* of that chunk are rows of an earlier session; what the calls of the model
\* write is repository 1, its chunk 1 and the embedding 1
RepoIds == {1, 2}
ChunkIds == {1, 2}
EmbeddingIds == {1, 2}
SyncedRepoIds == {1}
NewChunkIds == {1}
NewEmbeddingIds == {1}
Vectors == {1, 2}
DbCallIds == {1, 2}

\* lastEmbeddingCheckpointAt = null, vectorIndexCacheCount = -1
NoCheckpointYet == -1
NoCacheCount == -1

\* what the last call of flushPendingEmbeddingCheckpoint returned, for as
\* long as no other call has run on the database since
NotReturned == "none"

VARIABLES
  configuredPoolSize, maxQueueSize, downshiftErrorThreshold, workerBatchSize,
  activePoolSize, embedders, errorCount, downshiftReason,
  calls,
  memorySignalSeen, failedItems

poolVars == <<configuredPoolSize, maxQueueSize, downshiftErrorThreshold, workerBatchSize,
              activePoolSize, embedders, errorCount, downshiftReason,
              calls,
                          memorySignalSeen, failedItems>>

VARIABLES
  db, storageMode, opfsFile, localStorageBytes,
  vectorIndexCache, vectorIndexCacheCount,
  everyEmbeddings, everyMs,
  pendingEmbeddingsSinceCheckpoint, pendingEmbeddingsStartedAt, lastEmbeddingCheckpointAt,
  now, dbCalls,
  exportIsCurrent, writtenSinceExport,
  flushed

dbVars == <<db, storageMode, opfsFile, localStorageBytes,
            vectorIndexCache, vectorIndexCacheCount,
            everyEmbeddings, everyMs,
            pendingEmbeddingsSinceCheckpoint, pendingEmbeddingsStartedAt,
            lastEmbeddingCheckpointAt, now, dbCalls,
            exportIsCurrent, writtenSinceExport, flushed>>

VARIABLES localRepos, remoteRepos, syncPlan

syncVars == <<localRepos, remoteRepos, syncPlan>>

VARIABLES run, failingChunks

runVars == <<run, failingChunks>>

VARIABLES chat, chatOpened, chatExport, lastChatOp

chatVars == <<chat, chatOpened, chatExport, lastChatOp>>

\* the arguments and results of the helper functions of the page
VARIABLES checksumArgs, checksumInputs

checksumVars == <<checksumArgs, checksumInputs>>

VARIABLES searchStore, searchArgs, searchResults

searchVars == <<searchStore, searchArgs, searchResults>>

VARIABLES lastDbCall

VARIABLES chunkRows, chunkedAs, chunkClock, lastChunkCall

chunkVars == <<chunkRows, chunkedAs, chunkClock, lastChunkCall>>

\* EmbeddingPipeline of the embedding worker (unnamed/part_004:15-21) and the
\* getInstance call under way
VARIABLES preferredBackend, selectedBackend, fallbackReason, instance, getInstanceCall, posted

pipelineVars == <<preferredBackend, selectedBackend, fallbackReason, instance, getInstanceCall, posted>>

\* the stored chat messages with their creation times, and what
\* listChatMessages and sortChatMessages returned
VARIABLES messageStore, listedMessages, sortedMessages

orderVars == <<messageStore, listedMessages, sortedMessages>>

\* the rows of the embeddings table by chunk, the vector each was made
\* from, and the cache of the generation run
VARIABLES embeddingRows, embeddedFrom, localEmbeddingCache

vectorVars == <<embeddingRows, embeddedFrom, localEmbeddingCache>>

\* the chunks stored for each repository, and the sync cycle under way
VARIABLES repoChunks, cycle

cycleVars == <<repoChunks, cycle>>

\* one Embedder: its map of pending jobs, the promise of each embedBatch
\* call, the messages posted to its worker, the responses on their way
\* back, and what getRuntimeInfo reports
VARIABLES pendingJobs, promises, workerInbox, workerOutbox, runtimeInfo

embedderVars == <<pendingJobs, promises, workerInbox, workerOutbox, runtimeInfo>>

\* the generateEmbeddings calls under way on one database, each with the
\* chunks it has selected
VARIABLES generations

generationVars == <<generations>>

\* one fetchReadmes call: its locals, its workers and what it settled with
VARIABLES readmeCall

readmeVars == <<readmeCall>>

\* one splitIntoChunks call: its arguments and the locals of its loop
VARIABLES split

splitVars == <<split>>

helperVars == <<checksumVars, searchVars, lastDbCall, chunkVars, pipelineVars, orderVars, vectorVars, cycleVars, embedderVars, generationVars, readmeVars, splitVars>>

vars == <<poolVars, dbVars, syncVars, runVars, chatVars, helperVars>>

\* ------------------------------------------------------------------------
\* Pure helpers of WorkerPool.ts
\* ------------------------------------------------------------------------
Min(a, b) == IF a < b THEN a ELSE b

clampPositiveInt(value, fallback) ==
  IF value <= 0 THEN fallback ELSE IF value < 1 THEN 1 ELSE value

\* String.prototype.toLowerCase on the messages of the model
toLowerCase(m) ==
  CASE m = "Allocation failed" -> "allocation failed"
    [] m = "FOREIGN KEY constraint failed" -> "foreign key constraint failed"
    [] m = "NOT NULL constraint failed: chat_sessions.created_at"
         -> "not null constraint failed: chat_sessions.created_at"
    [] m = "NOT NULL constraint failed: chat_messages.session_id"
         -> "not null constraint failed: chat_messages.session_id"
    [] OTHER -> m

includes(hay, needle) ==
  \E i \in 1..(Len(hay) - Len(needle) + 1) : SubSeq(hay, i, i + Len(needle) - 1) = needle

\* the signature match done on the message as it came, without lower-casing
isMemoryPressureErrorCaseSensitive(errorMessage) ==
  IF errorMessage = Null \/ errorMessage = ""
  THEN FALSE
  ELSE \/ includes(errorMessage, "out of memory")
       \/ includes(errorMessage, "memory")
       \/ includes(errorMessage, "oom")
       \/ includes(errorMessage, "allocation failed")

isMemoryPressureError(errorMessage) ==
  IF errorMessage = Null \/ errorMessage = ""
  THEN FALSE
  ELSE LET normalized == toLowerCase(errorMessage) IN
         \/ includes(normalized, "out of memory")
         \/ includes(normalized, "memory")
         \/ includes(normalized, "oom")
         \/ includes(normalized, "allocation failed")

\* `if (item.error)`: null and the empty string are falsy
Truthy(error) == error # Null /\ error # ""

MismatchMessage(expected, got) ==
  "embedding batch length mismatch: expected " \o ToString(expected) \o ", got " \o ToString(got)

\* ------------------------------------------------------------------------
\* EmbeddingWorkerPool: data
\* ------------------------------------------------------------------------
\* the texts of a call are distinct tokens, so that a vector names its text
Texts(n) == [i \in 1..n |-> i]
Vec(text) == text

Item(embedding, error) == [embedding |-> embedding, error |-> error]
\* an entry of the worker's answer that is null or undefined
NullItem == Item(-1, Null)
Placeholder == Item(NoVector, NotExecuted)
NoOutcome == [item |-> Item(NoVector, "no outcome yet"), cause |-> "none"]

ItemOutcomes(text) ==
  {Item(Vec(text), Null), Item(NoVector, Null)}
    \cup {Item(NoVector, e) : e \in ItemErrors}

RECURSIVE ItemLists(_)
ItemLists(ts) ==
  IF ts = <<>> THEN {<<>>}
  ELSE {<<first>> \o rest : first \in ItemOutcomes(Head(ts)), rest \in ItemLists(Tail(ts))}

\* the answers of EmbedderLike.embedBatch(texts): a list of the right
\* length, a list that is one short, or a rejection
Responses(ts) ==
  {[kind |-> "items", items |-> l, message |-> Null] : l \in ItemLists(ts)}
    \cup {[kind |-> "items", items |-> [i \in 1..(Len(ts) - 1) |-> Item(Vec(ts[i]), Null)],
           message |-> Null]}
    \cup {[kind |-> "throw", items |-> <<>>, message |-> m] : m \in ThrowMessages}

IdleCall ==
  [state |-> "idle", texts |-> <<>>, results |-> <<>>, jobs |-> <<>>, cursor |-> 0,
   workers |-> <<>>, sent |-> <<>>, produced |-> <<>>]

\* a call whose workers were terminated under it: their requests are never
\* answered (Embedder.ts:126-128), so the call never settles and its locals
\* never change again
StrandedCall == [IdleCall EXCEPT !.state = "stranded"]

\* texts.slice(from, to)
slice(texts, from, to) == SubSeq(texts, from + 1, Min(to, Len(texts)))

\* WorkerPool.ts:142-148
RECURSIVE BuildJobs(_, _, _, _)
BuildJobs(texts, offset, size, acc) ==
  IF offset < Len(texts)
  THEN BuildJobs(texts, offset + size, size,
                 Append(acc, [offset |-> offset, texts |-> slice(texts, offset, offset + size)]))
  ELSE acc

\* createEmbedder(): a fresh embedder with a live worker
createEmbedder == [live |-> TRUE]

\* a pool that creates one embedder more than it has active
RECURSIVE ensureWorkersOneMore(_, _)
ensureWorkersOneMore(held, active) ==
  IF Len(held) < active + 1
  THEN ensureWorkersOneMore(Append(held, createEmbedder), active)
  ELSE held

\* WorkerPool.ts:92-96: the embedders the pool holds after ensureWorkers
RECURSIVE ensureWorkers(_, _)
ensureWorkers(held, active) ==
  IF Len(held) < active
  THEN ensureWorkers(Append(held, createEmbedder), active)
  ELSE held

\* WorkerPool.ts:98-103
downshiftToSingle(ps, reason) ==
  [ps EXCEPT !.activePoolSize = 1,
             !.downshiftReason = IF ~Truthy(ps.downshiftReason) THEN reason ELSE @]

\* a claim that reads the cursor and leaves it where it is
ClaimNextNoAdvance(call, w, active) ==
  LET nextIndex == call.cursor IN
  IF nextIndex >= Len(call.jobs)
  THEN [call EXCEPT !.workers[w + 1].state = "exited"]
  ELSE [call EXCEPT !.workers[w + 1].state = "awaiting",
                    !.workers[w + 1].job = nextIndex,
                    !.sent = Append(@, [worker |-> w, job |-> nextIndex, active |-> active])]

\* WorkerPool.ts:158-168: worker w of a call takes the next unclaimed job
\* through the shared cursor, or leaves the loop when none is left
ClaimNext(call, w, active) ==
  LET nextIndex == call.cursor IN
  IF nextIndex >= Len(call.jobs)
  THEN [call EXCEPT !.workers[w + 1].state = "exited"]
  ELSE [call EXCEPT !.cursor = nextIndex + 1,
                    !.workers[w + 1].state = "awaiting",
                    !.workers[w + 1].job = nextIndex,
                    !.sent = Append(@, [worker |-> w, job |-> nextIndex, active |-> active])]

\* WorkerPool.ts:152-156, 210: runWorker(0..workerCount-1) run one after the
\* other up to their first await
RECURSIVE StartWorkers(_, _, _, _, _)
StartWorkers(call, index, workerCount, held, active) ==
  IF index >= workerCount THEN call
  ELSE IF index + 1 > Len(held)
       THEN StartWorkers([call EXCEPT !.workers[index + 1].state = "exited"],
                         index + 1, workerCount, held, active)
       ELSE StartWorkers(ClaimNext([call EXCEPT !.workers[index + 1].live = held[index + 1].live],
                                   index, active),
                         index + 1, workerCount, held, active)

\* the slot computed without the offset of the job
TargetIndexNoOffset(job, i) == i

\* WorkerPool.ts:178, 194: the result slot of the i-th text of a job
TargetIndex(job, i) == job.offset + i

\* WorkerPool.ts:177-190: the items of an answer of the right length, one by
\* one; ps carries results, errorCount, activePoolSize and downshiftReason
RECURSIVE StoreItems(_, _, _, _, _)
StoreItems(ps, job, itemResults, i, threshold) ==
  IF i >= Len(itemResults) THEN ps
  ELSE
    LET targetIndex == TargetIndex(job, i)
        item == IF itemResults[i + 1] = NullItem
                THEN Item(NoVector, MissingItem)
                ELSE itemResults[i + 1]
        stored == [ps EXCEPT !.results[targetIndex + 1] = item]
        counted == IF Truthy(item.error)
                   THEN [stored EXCEPT !.errorCount = @ + 1]
                   ELSE stored
        next == IF Truthy(item.error)
                   /\ (isMemoryPressureError(item.error) \/ counted.errorCount >= threshold)
                THEN downshiftToSingle(counted, item.error)
                ELSE counted
    IN StoreItems(next, job, itemResults, i + 1, threshold)

\* a catch block that marks the first text of the sub-batch only
FailFirstItem(ps, job, message, i) ==
  [ps EXCEPT !.errorCount = @ + 1,
             !.results[job.offset + 1] = Item(NoVector, message)]

\* WorkerPool.ts:191-200: the whole sub-batch fails with one message
RECURSIVE FailItems(_, _, _, _)
FailItems(ps, job, message, i) ==
  IF i >= Len(job.texts) THEN ps
  ELSE LET targetIndex == TargetIndex(job, i) IN
       FailItems([ps EXCEPT !.errorCount = @ + 1,
                            !.results[targetIndex + 1] = Item(NoVector, message)],
                 job, message, i + 1)

FailJob(ps, job, message, threshold) ==
  LET failed == FailItems(ps, job, message, 0) IN
  IF isMemoryPressureError(message) \/ failed.errorCount >= threshold
  THEN downshiftToSingle(failed, message)
  ELSE failed

\* WorkerPool.ts:169-201: the try/catch around one worker call
HandleResponse(ps, job, resp, threshold) ==
  IF resp.kind = "throw"
  THEN FailJob(ps, job, resp.message, threshold)
  ELSE IF Len(resp.items) # Len(job.texts)
       THEN FailJob(ps, job, MismatchMessage(Len(job.texts), Len(resp.items)), threshold)
       ELSE StoreItems(ps, job, resp.items, 0, threshold)

\* extra workers that keep claiming after a downshift
StaysAfterJob(active, workerIndex) == FALSE

\* WorkerPool.ts:203-206: an extra worker leaves once the pool is downshifted
ExitsAfterJob(active, workerIndex) == active = 1 /\ workerIndex > 0

\* what the worker's answer means for the k-th text of the job, told
\* without the pool's bookkeeping: the item that is due to the text, and
\* whether it comes from the answer itself, from a rejection or from an
\* answer of the wrong length
Outcome(resp, ts, k) ==
  IF resp.kind = "throw"
  THEN [item |-> Item(NoVector, resp.message), cause |-> "throw"]
  ELSE IF Len(resp.items) # Len(ts)
       THEN [item |-> Item(NoVector, MismatchMessage(Len(ts), Len(resp.items))),
             cause |-> "mismatch"]
       ELSE IF resp.items[k] = NullItem
            THEN [item |-> Item(NoVector, MissingItem), cause |-> "item"]
            ELSE [item |-> resp.items[k], cause |-> "item"]

\* the messages of the model that carry an out-of-memory or
\* allocation-failure signature
MemoryPressureMessages == {"out of memory while running model", "Allocation failed"}

\* ------------------------------------------------------------------------
\* EmbeddingWorkerPool: operations
\* ------------------------------------------------------------------------
RECURSIVE SumOver(_, _)
SumOver(f, S) ==
  IF S = {} THEN 0
  ELSE LET x == CHOOSE y \in S : TRUE IN f[x] + SumOver(f, S \ {x})

\* the texts of the calls that have been accepted and not yet returned
PendingTexts == SumOver([c \in CallIds |-> Len(calls[c].results)], CallIds)

\* WorkerPool.ts:77-90
InitPool ==
  /\ \E poolSize \in PoolSizeOptions, queue \in QueueSizeOptions,
        threshold \in ThresholdOptions, batch \in BatchSizeOptions :
       /\ configuredPoolSize = clampPositiveInt(poolSize, DEFAULT_POOL_SIZE)
       /\ activePoolSize = clampPositiveInt(poolSize, DEFAULT_POOL_SIZE)
       /\ maxQueueSize = clampPositiveInt(queue, DEFAULT_MAX_QUEUE_SIZE)
       /\ downshiftErrorThreshold = clampPositiveInt(threshold, DEFAULT_DOWNSHIFT_ERROR_THRESHOLD)
       /\ workerBatchSize = clampPositiveInt(batch, DEFAULT_WORKER_BATCH_SIZE)
  /\ embedders = <<>>
  /\ errorCount = 0
  /\ downshiftReason = Null
  /\ calls = [c \in CallIds |-> IdleCall]
  /\ memorySignalSeen = FALSE
  /\ failedItems = 0

\* the options of a pool are fixed at construction, and the pool does not
\* touch the database
PoolConfigUnchanged ==
  UNCHANGED <<configuredPoolSize, maxQueueSize, downshiftErrorThreshold, workerBatchSize,
              dbVars, syncVars, runVars, chatVars, helperVars>>

\* overlapping calls are told apart by the slot they run in; a new call
\* takes the first free slot
FreeSlot(c) ==
  /\ calls[c].state = "idle"
  /\ \A d \in CallIds : d < c => calls[d].state # "idle"

\* WorkerPool.ts:127-130: embedBatch([]) resolves with [] at once
EmbedBatchEmpty(c) ==
  /\ FreeSlot(c)
  /\ calls' = [calls EXCEPT ![c] = [IdleCall EXCEPT !.state = "resolved"]]
  /\ PoolConfigUnchanged
  /\ UNCHANGED <<activePoolSize, embedders, errorCount, downshiftReason,
                 memorySignalSeen, failedItems>>

\* the queue limit compared with >= instead of >
EmbedBatchOverflowAtLimit(c) ==
  /\ FreeSlot(c)
  /\ \E n \in 1..(maxQueueSize + 1) :
       /\ n >= maxQueueSize
       /\ calls' = [calls EXCEPT ![c] = [IdleCall EXCEPT !.state = "rejected", !.texts = Texts(n)]]
  /\ PoolConfigUnchanged
  /\ UNCHANGED <<activePoolSize, embedders, errorCount, downshiftReason,
                 memorySignalSeen, failedItems>>

\* WorkerPool.ts:132-134: more texts than maxQueueSize; the call throws
\* before ensureWorkers
EmbedBatchOverflow(c) ==
  /\ FreeSlot(c)
  /\ \E n \in 1..(maxQueueSize + 1) :
       /\ n > maxQueueSize
       /\ calls' = [calls EXCEPT ![c] = [IdleCall EXCEPT !.state = "rejected", !.texts = Texts(n)]]
  /\ PoolConfigUnchanged
  /\ UNCHANGED <<activePoolSize, embedders, errorCount, downshiftReason,
                 memorySignalSeen, failedItems>>

\* WorkerPool.ts:136-168, 210: an accepted call up to the first await of
\* each of its workers
EmbedBatchStart(c) ==
  /\ FreeSlot(c)
  /\ \E n \in 1..maxQueueSize :
       /\ n <= maxQueueSize
       /\ PendingTexts + n <= MaxPendingTexts
       /\ LET texts == Texts(n)
              held == ensureWorkers(embedders, activePoolSize)
              jobs == BuildJobs(texts, 0, workerBatchSize, <<>>)
              workerCount == Min(activePoolSize, Len(jobs))
              fresh == [state |-> "running", texts |-> texts,
                        results |-> [i \in 1..n |-> Placeholder],
                        jobs |-> jobs, cursor |-> 0,
                        workers |-> [w \in 1..workerCount |->
                                       [state |-> "new", job |-> -1, live |-> FALSE]],
                        sent |-> <<>>,
                        produced |-> [i \in 1..n |-> NoOutcome]]
              started == StartWorkers(fresh, 0, workerCount, held, activePoolSize)
          IN /\ embedders' = held
             /\ calls' = [calls EXCEPT ![c] = started]
  /\ PoolConfigUnchanged
  /\ UNCHANGED <<activePoolSize, errorCount, downshiftReason, memorySignalSeen, failedItems>>

AllExited(call) == \A w \in DOMAIN call.workers : call.workers[w].state = "exited"

\* WorkerPool.ts:170-207: the worker call of worker w of call c settles; the
\* worker stores the answer, then leaves or claims its next job; the call
\* resolves when its last worker has left (WorkerPool.ts:210-211)
WorkerResponds(c, w) ==
  /\ calls[c].state = "running"
  /\ (w + 1) \in DOMAIN calls[c].workers
  /\ calls[c].workers[w + 1].state = "awaiting"
  /\ calls[c].workers[w + 1].live
  /\ LET call == calls[c]
         job == call.jobs[call.workers[w + 1].job + 1]
     IN \E resp \in Responses(job.texts) :
          LET ps == HandleResponse([results |-> call.results, errorCount |-> errorCount,
                                    activePoolSize |-> activePoolSize,
                                    downshiftReason |-> downshiftReason],
                                   job, resp, downshiftErrorThreshold)
              outcomes == [k \in 1..Len(job.texts) |-> Outcome(resp, job.texts, k)]
              stored == [call EXCEPT !.results = ps.results,
                                     !.produced = [t \in DOMAIN call.produced |->
                                        IF \E k \in 1..Len(job.texts) : job.texts[k] = t
                                        THEN outcomes[CHOOSE k \in 1..Len(job.texts) : job.texts[k] = t]
                                        ELSE call.produced[t]]]
              moved == IF ExitsAfterJob(ps.activePoolSize, w)
                       THEN [stored EXCEPT !.workers[w + 1].state = "exited"]
                       ELSE ClaimNext(stored, w, ps.activePoolSize)
              settled == IF AllExited(moved) THEN [moved EXCEPT !.state = "resolved"] ELSE moved
          IN /\ ps.errorCount <= MaxErrors
             /\ calls' = [calls EXCEPT ![c] = settled]
             /\ errorCount' = ps.errorCount
             /\ activePoolSize' = ps.activePoolSize
             /\ downshiftReason' = ps.downshiftReason
             /\ memorySignalSeen' =
                  (memorySignalSeen
                     \/ \E k \in 1..Len(job.texts) : outcomes[k].item.error \in MemoryPressureMessages)
             /\ failedItems' =
                  failedItems + Cardinality({k \in 1..Len(job.texts) : outcomes[k].item.error # Null})
  /\ PoolConfigUnchanged
  /\ UNCHANGED embedders

\* the caller takes the settled promise; the slot is free for the next call
CallReturns(c) ==
  /\ calls[c].state \in {"resolved", "rejected"}
  /\ calls' = [calls EXCEPT ![c] = IdleCall]
  /\ PoolConfigUnchanged
  /\ UNCHANGED <<activePoolSize, embedders, errorCount, downshiftReason,
                                memorySignalSeen, failedItems>>

\* WorkerPool.ts:105-125 (the fields the pool itself owns)
getStatus ==
  [configuredPoolSize |-> configuredPoolSize,
   activePoolSize |-> activePoolSize,
   maxQueueSize |-> maxQueueSize,
   downshifted |-> activePoolSize < configuredPoolSize,
   downshiftReason |-> downshiftReason,
   errorCount |-> errorCount]

\* getStatus() reads the fields and changes none of them
GetStatus ==
  /\ PoolConfigUnchanged
  /\ UNCHANGED <<activePoolSize, embedders, errorCount, downshiftReason, calls,
                 memorySignalSeen, failedItems>>

\* a terminate that also puts the pool back to its configured size
TerminateResets ==
  /\ embedders # <<>>
  /\ embedders' = <<>>
  /\ calls' = [c \in CallIds |->
                 IF calls[c].state = "running" THEN StrandedCall ELSE calls[c]]
  /\ activePoolSize' = configuredPoolSize
  /\ PoolConfigUnchanged
  /\ UNCHANGED <<errorCount, downshiftReason, memorySignalSeen, failedItems>>

\* WorkerPool.ts:214-219: every held embedder is terminated and dropped; the
\* worker of a terminated embedder answers no request any more
\* (Embedder.ts:126-128), also not those of calls that still await it
Terminate ==
  /\ embedders # <<>>
  /\ embedders' = <<>>
  /\ calls' = [c \in CallIds |->
                 IF calls[c].state = "running" THEN StrandedCall ELSE calls[c]]
  /\ PoolConfigUnchanged
  /\ UNCHANGED <<activePoolSize, errorCount, downshiftReason, memorySignalSeen, failedItems>>

NextPool ==
  \/ \E c \in CallIds : EmbedBatchEmpty(c)
  \/ \E c \in CallIds : EmbedBatchOverflow(c)
  \/ \E c \in CallIds : EmbedBatchStart(c)
  \/ \E c \in CallIds : \E w \in 0..(DEFAULT_POOL_SIZE - 1) : WorkerResponds(c, w)
  \/ \E c \in CallIds : CallReturns(c)
  \/ GetStatus
  \/ Terminate

\* ------------------------------------------------------------------------
\* LocalDatabase: data
\* ------------------------------------------------------------------------
normalizePositiveInt(value, fallback) ==
  IF value <= 0 THEN fallback ELSE IF value < 1 THEN 1 ELSE value

\* a row of the embeddings table, by embedding id; NoRow where the id is
\* not stored
Row(chunkId, vector) == [chunkId |-> chunkId, vector |-> vector]
NoRow == Row(0, 0)

\* chunks.repo_id: chunk c belongs to repository c
RepoOf(chunkId) == chunkId

\* the tables of a database after runSchema (part_013): no row anywhere
EmptyDb ==
  [repos |-> {}, chunks |-> {}, embeddings |-> [id \in EmbeddingIds |-> NoRow], indexMeta |-> {}, legacy |-> FALSE]

\* a database loaded from an older installation: its embeddings table
\* passes the column check of runSchema, yet statements on it can fail with
\* "datatype mismatch" (client.ts:918-921, 1362-1366)
LegacyDb ==
  [repos |-> {1}, chunks |-> {1},
   embeddings |-> [id \in EmbeddingIds |-> IF id = 1 THEN Row(1, 1) ELSE NoRow],
   indexMeta |-> {}, legacy |-> TRUE]

\* db.export(): the image of the rows of all tables
Tables(database) ==
  [repos |-> database.repos, chunks |-> database.chunks, embeddings |-> database.embeddings,
   indexMeta |-> database.indexMeta]
export(database) == [present |-> TRUE, tables |-> Tables(database)]
NoBytes == [present |-> FALSE, tables |-> Tables(EmptyDb)]

NoCache == [built |-> FALSE, rows |-> <<>>]

IdleDbCall == [state |-> "idle", after |-> "return", bytes |-> NoBytes]

\* the records of one upsertEmbeddings call: one or two embeddings with
\* different ids, each of a chunk and with a vector
EmbeddingRecords == [id : NewEmbeddingIds, chunkId : NewChunkIds, vector : Vectors]
EmbeddingBatches ==
  {batch \in SUBSET EmbeddingRecords :
     /\ batch # {}
     /\ \A r1, r2 \in batch : r1.id = r2.id => r1 = r2}

\* client.ts:956-964
getEmbeddingCount(database) ==
  Cardinality({id \in EmbeddingIds : database.embeddings[id] # NoRow})

\* client.ts:596-600: the embeddings joined with their chunks, in row order
RECURSIVE JoinRows(_, _)
JoinRows(database, id) ==
  IF id \notin EmbeddingIds THEN <<>>
  ELSE LET row == database.embeddings[id] IN
       (IF row # NoRow /\ row.chunkId \in database.chunks THEN <<row>> ELSE <<>>)
         \o JoinRows(database, id + 1)

\* client.ts:590-616: the cache after the call and the vectors it returns
ensureVectorIndexCache(cache, cacheCount, database) ==
  LET currentCount == getEmbeddingCount(database) IN
  IF cache.built /\ cacheCount = currentCount
  THEN [cache |-> cache, count |-> cacheCount, vectors |-> cache.rows]
  ELSE LET rows == JoinRows(database, 1) IN
       IF rows = <<>>
       THEN [cache |-> [built |-> TRUE, rows |-> <<>>], count |-> 0, vectors |-> <<>>]
       ELSE [cache |-> [built |-> TRUE, rows |-> rows], count |-> Len(rows), vectors |-> rows]

\* client.ts:717-729
shouldCheckpointEmbeddings(pending, startedAt, lastAt, every, ms, t) ==
  IF pending <= 0 THEN FALSE
  ELSE IF pending >= every THEN TRUE
  ELSE LET checkpointBaseline ==
             IF lastAt # NoCheckpointYet THEN lastAt
             ELSE IF startedAt > 0 THEN startedAt ELSE t
       IN t - checkpointBaseline >= ms

\* client.ts:731-740
noteEmbeddingWrites(pending, startedAt, count, t) ==
  IF count <= 0 THEN [pending |-> pending, startedAt |-> startedAt]
  ELSE [pending |-> pending + count,
        startedAt |-> IF pending = 0 THEN t ELSE startedAt]

\* client.ts:966-979: the table is dropped with its rows and created anew
recreateEmbeddingsTable(database) ==
  [database EXCEPT !.embeddings = [id \in EmbeddingIds |-> NoRow], !.legacy = FALSE]

\* a delete that takes the named rows and nothing with them
NoCascade(database) == database

\* ON DELETE CASCADE (part_013): chunks go with their repository, embeddings
\* with their chunk
Cascade(database) ==
  LET chunks == {c \in database.chunks : RepoOf(c) \in database.repos} IN
  [database EXCEPT
     !.chunks = chunks,
     !.embeddings = [id \in EmbeddingIds |->
                       IF database.embeddings[id].chunkId \in chunks
                       THEN database.embeddings[id] ELSE NoRow]]

\* the statements of a batch without the transaction around them: the rows
\* written before the failing one stay
runEmbeddingUpsertNoRollback(database, batch) ==
  [ok |-> \A r \in batch : r.chunkId \in database.chunks,
   message |-> IF \A r \in batch : r.chunkId \in database.chunks THEN Null ELSE "FOREIGN KEY constraint failed",
   db |-> [database EXCEPT !.embeddings =
             [id \in EmbeddingIds |->
                IF \E r \in batch : r.id = id /\ r.chunkId \in database.chunks
                THEN LET r == CHOOSE x \in batch : x.id = id IN Row(r.chunkId, r.vector)
                ELSE database.embeddings[id]]]]

\* client.ts:1168-1207: one transaction; a record whose chunk is not stored
\* fails the foreign key and the transaction is rolled back
runEmbeddingUpsert(database, batch) ==
  IF \A r \in batch : r.chunkId \in database.chunks
  THEN [ok |-> TRUE, message |-> Null,
        db |-> [database EXCEPT !.embeddings =
                  [id \in EmbeddingIds |->
                     IF \E r \in batch : r.id = id
                     THEN LET r == CHOOSE x \in batch : x.id = id IN Row(r.chunkId, r.vector)
                     ELSE database.embeddings[id]]]]
  ELSE [ok |-> FALSE, message |-> "FOREIGN KEY constraint failed", db |-> database]

\* client.ts:1356-1376: the write, healed and retried once on a schema error
upsertEmbeddingsWrite(database, batch, raises) ==
  LET first == IF raises
               THEN [ok |-> FALSE, message |-> "datatype mismatch", db |-> database]
               ELSE runEmbeddingUpsert(database, batch)
  IN IF first.ok THEN [threw |-> FALSE, db |-> first.db]
     ELSE LET message == toLowerCase(first.message)
              shouldHeal == includes(message, "datatype mismatch") \/ includes(message, "no such table")
          IN IF ~shouldHeal THEN [threw |-> TRUE, db |-> database]
             ELSE LET retry == runEmbeddingUpsert(recreateEmbeddingsTable(database), batch) IN
                  [threw |-> ~retry.ok, db |-> retry.db]

\* getLocalDatabase (client.ts:1662-1687) reads the OPFS file first and
\* localStorage only when there is none
StableSnapshot == IF opfsFile.present THEN opfsFile ELSE localStorageBytes

\* ------------------------------------------------------------------------
\* LocalDatabase: operations
\* ------------------------------------------------------------------------
\* the pool as it stands while the database is looked at
PoolNotConstructed ==
  /\ configuredPoolSize = DEFAULT_POOL_SIZE
  /\ activePoolSize = DEFAULT_POOL_SIZE
  /\ maxQueueSize = DEFAULT_MAX_QUEUE_SIZE
  /\ downshiftErrorThreshold = DEFAULT_DOWNSHIFT_ERROR_THRESHOLD
  /\ workerBatchSize = DEFAULT_WORKER_BATCH_SIZE
  /\ embedders = <<>>
  /\ errorCount = 0
  /\ downshiftReason = Null
  /\ calls = [c \in CallIds |-> IdleCall]
  /\ memorySignalSeen = FALSE
  /\ failedItems = 0

\* getLocalDatabase (client.ts:1635-1688): a fresh database, exported once by
\* upsertIndexMeta, or one loaded from the bytes in stable storage
InitDb ==
  /\ db \in {EmptyDb, LegacyDb}
  /\ storageMode \in {"opfs", "local-storage"}
  /\ opfsFile = IF storageMode = "opfs" THEN export(db) ELSE NoBytes
  /\ localStorageBytes = IF storageMode = "opfs" THEN NoBytes ELSE export(db)
  /\ vectorIndexCache = NoCache
  /\ vectorIndexCacheCount = NoCacheCount
  /\ \E every \in EveryEmbeddingsOptions, ms \in EveryMsOptions :
       /\ everyEmbeddings = normalizePositiveInt(every, DEFAULT_EMBEDDING_CHECKPOINT_EVERY_EMBEDDINGS)
       /\ everyMs = normalizePositiveInt(ms, DEFAULT_EMBEDDING_CHECKPOINT_EVERY_MS)
  /\ pendingEmbeddingsSinceCheckpoint = 0
  /\ pendingEmbeddingsStartedAt = 0
  /\ lastEmbeddingCheckpointAt = NoCheckpointYet
  /\ flushed = NotReturned
  /\ now = 1
  /\ dbCalls = [k \in DbCallIds |-> IdleDbCall]
  /\ exportIsCurrent = TRUE
  /\ writtenSinceExport = 0

\* getLocalDatabase (client.ts:1660-1685) on the bytes of an earlier session:
\* two repositories, a chunk of each, and the embeddings of some of the chunks
StoredDbs ==
  {[repos |-> RepoIds, chunks |-> ChunkIds,
    embeddings |-> [id \in EmbeddingIds |-> IF id \in ids THEN Row(id, 1) ELSE NoRow],
    indexMeta |-> {}, legacy |-> FALSE] : ids \in SUBSET EmbeddingIds}

InitStored ==
  /\ db \in StoredDbs
  /\ storageMode \in {"opfs", "local-storage"}
  /\ opfsFile = IF storageMode = "opfs" THEN export(db) ELSE NoBytes
  /\ localStorageBytes = IF storageMode = "opfs" THEN NoBytes ELSE export(db)
  /\ vectorIndexCache = NoCache
  /\ vectorIndexCacheCount = NoCacheCount
  /\ \E every \in EveryEmbeddingsOptions, ms \in EveryMsOptions :
       /\ everyEmbeddings = normalizePositiveInt(every, DEFAULT_EMBEDDING_CHECKPOINT_EVERY_EMBEDDINGS)
       /\ everyMs = normalizePositiveInt(ms, DEFAULT_EMBEDDING_CHECKPOINT_EVERY_MS)
  /\ pendingEmbeddingsSinceCheckpoint = 0
  /\ pendingEmbeddingsStartedAt = 0
  /\ lastEmbeddingCheckpointAt = NoCheckpointYet
  /\ flushed = NotReturned
  /\ now = 1
  /\ dbCalls = [k \in DbCallIds |-> IdleDbCall]
  /\ exportIsCurrent = TRUE
  /\ writtenSinceExport = 0

\* the database before getLocalDatabase has been called
DbNotOpened ==
  /\ db = EmptyDb
  /\ storageMode = "opfs"
  /\ opfsFile = NoBytes
  /\ localStorageBytes = NoBytes
  /\ vectorIndexCache = NoCache
  /\ vectorIndexCacheCount = NoCacheCount
  /\ everyEmbeddings = DEFAULT_EMBEDDING_CHECKPOINT_EVERY_EMBEDDINGS
  /\ everyMs = DEFAULT_EMBEDDING_CHECKPOINT_EVERY_MS
  /\ pendingEmbeddingsSinceCheckpoint = 0
  /\ pendingEmbeddingsStartedAt = 0
  /\ lastEmbeddingCheckpointAt = NoCheckpointYet
  /\ flushed = NotReturned
  /\ now = 1
  /\ dbCalls = [k \in DbCallIds |-> IdleDbCall]
  /\ exportIsCurrent = FALSE
  /\ writtenSinceExport = 0

\* the checkpoint policy is fixed when the database is opened, and the
\* database does not touch the pool
DbPolicyUnchanged ==
  UNCHANGED <<everyEmbeddings, everyMs, poolVars, syncVars, runVars, chatVars, helperVars>>

CheckpointUnchanged ==
  /\ UNCHANGED <<pendingEmbeddingsSinceCheckpoint, pendingEmbeddingsStartedAt,
                 lastEmbeddingCheckpointAt>>
  /\ flushed' = NotReturned

\* client.ts:757-759: nothing is unflushed and the flush returns false
NothingToFlush ==
  /\ UNCHANGED <<pendingEmbeddingsSinceCheckpoint, pendingEmbeddingsStartedAt,
                 lastEmbeddingCheckpointAt>>
  /\ flushed' = "false"

CacheUnchanged == UNCHANGED <<vectorIndexCache, vectorIndexCacheCount>>

InvalidateCache ==
  /\ vectorIndexCache' = NoCache
  /\ vectorIndexCacheCount' = NoCacheCount

\* overlapping calls are told apart by the slot they run in
FreeDbSlot(k) ==
  /\ dbCalls[k].state = "idle"
  /\ \A j \in DbCallIds : j < k => dbCalls[j].state # "idle"

AllDbCallsIdle == \A k \in DbCallIds : dbCalls[k].state = "idle"

\* client.ts:699-715 up to its await: the export is taken at once; in "opfs"
\* mode the write is awaited, in "local-storage" mode the bytes are stored
\* before persist returns
persist(k, database, after) ==
  /\ exportIsCurrent' = TRUE
  /\ writtenSinceExport' = 0
  /\ IF storageMode = "opfs"
     THEN /\ dbCalls' = [dbCalls EXCEPT ![k] =
                           [state |-> "writing", after |-> after, bytes |-> export(database)]]
          /\ UNCHANGED localStorageBytes
     ELSE /\ dbCalls' = [dbCalls EXCEPT ![k] = IdleDbCall]
          /\ localStorageBytes' = export(database)

\* a flush that returns true with the time of an earlier checkpoint left
CheckpointKeepsTime ==
  /\ pendingEmbeddingsSinceCheckpoint' = 0
  /\ pendingEmbeddingsStartedAt' = 0
  /\ UNCHANGED lastEmbeddingCheckpointAt
  /\ flushed' = "true"

\* client.ts:761-765: what follows the persist of a flush
CheckpointTaken ==
  /\ pendingEmbeddingsSinceCheckpoint' = 0
  /\ pendingEmbeddingsStartedAt' = 0
  /\ lastEmbeddingCheckpointAt' = now
  /\ flushed' = "true"

\* client.ts:756-766 with unflushed embeddings: persist, and the reset of the
\* counter once persist has returned
flushPendingEmbeddingCheckpoint(k, database, pending, startedAt) ==
  /\ persist(k, database, "flush")
  /\ IF storageMode = "opfs"
     THEN /\ pendingEmbeddingsSinceCheckpoint' = pending
          /\ pendingEmbeddingsStartedAt' = startedAt
          /\ UNCHANGED lastEmbeddingCheckpointAt
          /\ flushed' = NotReturned
     ELSE CheckpointTaken

\* client.ts:768-821
UpsertRepos(k) ==
  /\ FreeDbSlot(k)
  /\ \E ids \in SUBSET SyncedRepoIds :
       LET written == [db EXCEPT !.repos = @ \cup ids] IN
       /\ db' = written
       /\ persist(k, written, "return")
  /\ CacheUnchanged
  /\ CheckpointUnchanged
  /\ UNCHANGED <<opfsFile, storageMode, now>>
  /\ DbPolicyUnchanged

\* client.ts:1266-1301: a chunk of a repository that is not stored fails the
\* foreign key; the transaction is rolled back and the call throws
UpsertChunks(k) ==
  /\ FreeDbSlot(k)
  /\ \E ids \in SUBSET NewChunkIds :
       IF \A c \in ids : RepoOf(c) \in db.repos
       THEN LET written == [db EXCEPT !.chunks = @ \cup ids] IN
            /\ db' = written
            /\ InvalidateCache
            /\ persist(k, written, "return")
       ELSE UNCHANGED <<db, vectorIndexCache, vectorIndexCacheCount, dbCalls,
                        localStorageBytes, exportIsCurrent, writtenSinceExport>>
  /\ CheckpointUnchanged
  /\ UNCHANGED <<opfsFile, storageMode, now>>
  /\ DbPolicyUnchanged

\* client.ts:1303-1313
DeleteReposByIds(k) ==
  /\ FreeDbSlot(k)
  /\ \E repoIds \in SUBSET RepoIds :
       /\ repoIds # {}
       /\ LET deleted == Cascade([db EXCEPT !.repos = @ \ repoIds]) IN
          /\ db' = deleted
          /\ persist(k, deleted, "return")
  /\ InvalidateCache
  /\ CheckpointUnchanged
  /\ UNCHANGED <<opfsFile, storageMode, now>>
  /\ DbPolicyUnchanged

\* client.ts:1315-1325
DeleteChunksByRepoIds(k) ==
  /\ FreeDbSlot(k)
  /\ \E repoIds \in SUBSET RepoIds :
       /\ repoIds # {}
       /\ LET deleted == Cascade([db EXCEPT !.chunks = {c \in @ : RepoOf(c) \notin repoIds}]) IN
          /\ db' = deleted
          /\ persist(k, deleted, "return")
  /\ InvalidateCache
  /\ CheckpointUnchanged
  /\ UNCHANGED <<opfsFile, storageMode, now>>
  /\ DbPolicyUnchanged

\* client.ts:1380-1383: the writes are counted and, when the policy asks for
\* it, flushed
NoteAndCheckpoint(k, written, count) ==
  LET noted == noteEmbeddingWrites(pendingEmbeddingsSinceCheckpoint,
                                   pendingEmbeddingsStartedAt, count, now)
  IN IF shouldCheckpointEmbeddings(noted.pending, noted.startedAt,
                                   lastEmbeddingCheckpointAt, everyEmbeddings, everyMs, now)
     THEN flushPendingEmbeddingCheckpoint(k, written, noted.pending, noted.startedAt)
     ELSE /\ pendingEmbeddingsSinceCheckpoint' = noted.pending
          /\ pendingEmbeddingsStartedAt' = noted.startedAt
          /\ writtenSinceExport' = writtenSinceExport + count
          /\ exportIsCurrent' = FALSE
          /\ flushed' = NotReturned
          /\ UNCHANGED <<lastEmbeddingCheckpointAt, dbCalls, localStorageBytes>>

\* a written batch that leaves the decoded vectors in the cache
EmbeddingsWrittenKeepCache(k, written, count) ==
  /\ db' = written
  /\ CacheUnchanged
  /\ NoteAndCheckpoint(k, written, count)

\* client.ts:1378-1383: what follows a batch that has been written
EmbeddingsWritten(k, written, count) ==
  /\ db' = written
  /\ InvalidateCache
  /\ NoteAndCheckpoint(k, written, count)

\* client.ts:1327-1384; a failed call leaves the cache and the counters as
\* they were, and the table recreated if the heal had got that far
UpsertBatch(k, batch, out) ==
  IF out.threw
  THEN /\ db' = out.db
       /\ CacheUnchanged
       /\ CheckpointUnchanged
       /\ exportIsCurrent' = (exportIsCurrent /\ out.db = db)
       /\ UNCHANGED <<dbCalls, localStorageBytes, writtenSinceExport>>
  ELSE EmbeddingsWritten(k, out.db, Cardinality(batch))

UpsertEmbeddings(k) ==
  /\ FreeDbSlot(k)
  /\ \E batch \in EmbeddingBatches, raises \in BOOLEAN :
       /\ raises => db.legacy
       /\ UpsertBatch(k, batch, upsertEmbeddingsWrite(db, batch, raises))
  /\ UNCHANGED <<opfsFile, storageMode, now>>
  /\ DbPolicyUnchanged

\* client.ts:756-766 as the page calls it on pagehide and at the end of a run
\* (UsagePage.tsx:408-429, 952): nothing happens without unflushed embeddings
FlushPendingEmbeddingCheckpoint(k) ==
  /\ FreeDbSlot(k)
  /\ IF pendingEmbeddingsSinceCheckpoint <= 0
     THEN /\ NothingToFlush
          /\ UNCHANGED <<dbCalls, localStorageBytes, exportIsCurrent, writtenSinceExport>>
     ELSE flushPendingEmbeddingCheckpoint(k, db, pendingEmbeddingsSinceCheckpoint,
                                          pendingEmbeddingsStartedAt)
  /\ CacheUnchanged
  /\ UNCHANGED <<db, opfsFile, storageMode, now>>
  /\ DbPolicyUnchanged

\* client.ts:69-86, 702-714: the OPFS write of a persist settles; a failed
\* write moves the database to "local-storage" and stores the bytes there;
\* then the caller goes on (client.ts:762-765 for a flush)
OpfsWriteSettles(k) ==
  /\ dbCalls[k].state = "writing"
  /\ \E written \in BOOLEAN :
       IF written
       THEN /\ opfsFile' = dbCalls[k].bytes
            /\ UNCHANGED <<storageMode, localStorageBytes>>
       ELSE /\ storageMode' = "local-storage"
            /\ localStorageBytes' = dbCalls[k].bytes
            /\ UNCHANGED opfsFile
  /\ IF dbCalls[k].after = "flush" THEN CheckpointTaken ELSE CheckpointUnchanged
  /\ dbCalls' = [dbCalls EXCEPT ![k] = IdleDbCall]
  /\ CacheUnchanged
  /\ UNCHANGED <<db, now, exportIsCurrent, writtenSinceExport>>
  /\ DbPolicyUnchanged

\* client.ts:898-938: the chunks without an embedding; a "datatype mismatch"
\* of the query recreates the embeddings table before the query runs again
GetChunksToEmbed ==
  /\ \E raises \in BOOLEAN :
       /\ raises => db.legacy
       /\ db' = IF raises THEN recreateEmbeddingsTable(db) ELSE db
       /\ exportIsCurrent' = (exportIsCurrent /\ ~raises)
  /\ CacheUnchanged
  /\ CheckpointUnchanged
  /\ UNCHANGED <<storageMode, opfsFile, localStorageBytes, now, dbCalls, writtenSinceExport>>
  /\ DbPolicyUnchanged

\* client.ts:618-697: the vectors a findSimilarChunks call ranks are those
\* ensureVectorIndexCache hands it; the call has no await
FindSimilarChunks ==
  /\ LET ensured == ensureVectorIndexCache(vectorIndexCache, vectorIndexCacheCount, db) IN
       /\ vectorIndexCache' = ensured.cache
       /\ vectorIndexCacheCount' = ensured.count
  /\ CheckpointUnchanged
  /\ UNCHANGED <<db, storageMode, opfsFile, localStorageBytes, now, dbCalls,
                 exportIsCurrent, writtenSinceExport>>
  /\ DbPolicyUnchanged

\* Date.now() moves on
Tick ==
  /\ now < MaxClock
  /\ now' = now + 1
  /\ CacheUnchanged
  /\ CheckpointUnchanged
  /\ UNCHANGED <<db, storageMode, opfsFile, localStorageBytes, dbCalls,
                 exportIsCurrent, writtenSinceExport>>
  /\ DbPolicyUnchanged

\* Date.now() moves on while written embeddings wait; nothing of the
\* database runs on a timer (client.ts:717-766 are the only readers of the
\* clock in the checkpoint policy, and both are called from upsertEmbeddings)
WaitTick ==
  /\ now < MaxWaitClock
  /\ now' = now + 1
  /\ CacheUnchanged
  /\ CheckpointUnchanged
  /\ UNCHANGED <<db, storageMode, opfsFile, localStorageBytes, dbCalls,
                 exportIsCurrent, writtenSinceExport>>
  /\ DbPolicyUnchanged

\* ------------------------------------------------------------------------
\* Sync planning (src/sync/plan.ts, unnamed/part_014)
\* ------------------------------------------------------------------------
\* the topic lists of the model: GitHub topics are names without duplicates
TopicLists == {<<>>, <<"alpha">>, <<"alpha", "zeta">>, <<"zeta", "alpha">>}

\* the order Array.prototype.sort() puts the topic names in (UTF-16 code
\* units)
CodeUnitRank(name) == IF name = "alpha" THEN 1 ELSE 2

RECURSIVE insertSorted(_, _)
insertSorted(x, sorted) ==
  IF sorted = <<>> THEN <<x>>
  ELSE IF CodeUnitRank(x) <= CodeUnitRank(Head(sorted)) THEN <<x>> \o sorted
  ELSE <<Head(sorted)>> \o insertSorted(x, Tail(sorted))

RECURSIVE sort(_)
sort(a) == IF a = <<>> THEN <<>> ELSE insertSorted(Head(a), sort(Tail(a)))

\* topic lists compared as they stand, position by position
equalTopicsInOrder(a, b) == a = b

\* plan.ts:4-18
equalTopics(a, b) ==
  IF Len(a) # Len(b) THEN FALSE
  ELSE LET left == sort(a)
           right == sort(b)
       IN \A i \in 1..Len(left) : left[i] = right[i]

\* plan.ts:26: remote.topics ?? []
TopicsOrEmpty(remote) == IF remote.hasTopics THEN remote.topics ELSE <<>>

\* plan.ts:20-28
repoMetadataChanged(local, remote) ==
  \/ local.fullName # remote.full_name
  \/ local.description # remote.description
  \/ local.language # remote.language
  \/ local.updatedAt # remote.updated_at
  \/ ~equalTopics(local.topics, TopicsOrEmpty(remote))

\* the checksum-relevant fields of a repository: one reference value, and the
\* values that differ from it in one field
BaseFields ==
  [fullName |-> "owner/repo", description |-> "d1", language |-> "TypeScript",
   updatedAt |-> "2026-01-01", topics |-> <<"alpha", "zeta">>]

FieldValues ==
  {BaseFields,
   [BaseFields EXCEPT !.fullName = "owner/renamed"],
   [BaseFields EXCEPT !.description = Null],
   [BaseFields EXCEPT !.language = Null],
   [BaseFields EXCEPT !.updatedAt = "2026-02-01"]}
  \cup {[BaseFields EXCEPT !.topics = t] : t \in TopicLists}

\* RepoSyncState as listRepoSyncState reads it (client.ts:855-875)
LocalRepo(id, f, checksum) ==
  [id |-> id, fullName |-> f.fullName, description |-> f.description,
   language |-> f.language, updatedAt |-> f.updatedAt, topics |-> f.topics,
   checksum |-> checksum]

\* GitHubStarredRepo (github/types.ts); topics is optional
RemoteRepo(id, f, hasTopics) ==
  [id |-> id, full_name |-> f.fullName, description |-> f.description,
   language |-> f.language, updated_at |-> f.updatedAt,
   topics |-> IF hasTopics THEN f.topics ELSE <<>>, hasTopics |-> hasTopics]

Checksums == {Null, "", "hash-1"}

\* a repository of the snapshot, or none with that id
LocalChoices(id) ==
  {<<>>} \cup {<<LocalRepo(id, f, c)>> : f \in FieldValues, c \in Checksums}
RemoteChoices(id) ==
  {<<>>} \cup {<<RemoteRepo(id, f, TRUE)>> : f \in FieldValues}
         \cup {<<RemoteRepo(id, BaseFields, FALSE)>>}

NoPlan == [built |-> FALSE, removedRepoIds |-> <<>>, candidateRepoIds |-> <<>>]

\* localRepos.map((repo) => repo.id)
MapIds(repos) == [i \in DOMAIN repos |-> repos[i].id]

\* plan.ts:35-59
buildSyncPlan(locals, remotes) ==
  LET remoteIds == {remotes[i].id : i \in DOMAIN remotes}
      hasLocal(id) == \E i \in DOMAIN locals : locals[i].id = id
      localById(id) == locals[CHOOSE i \in DOMAIN locals :
                                 /\ locals[i].id = id
                                 /\ \A j \in DOMAIN locals : locals[j].id = id => j <= i]
      isCandidate(repo) ==
        IF ~hasLocal(repo.id) THEN TRUE
        ELSE IF ~Truthy(localById(repo.id).checksum) THEN TRUE
        ELSE repoMetadataChanged(localById(repo.id), repo)
  IN [built |-> TRUE,
      removedRepoIds |-> SelectSeq(MapIds(locals), LAMBDA id : id \notin remoteIds),
      candidateRepoIds |-> MapIds(SelectSeq(remotes, isCandidate))]

\* two snapshots before the plan is built: the local one in id order, as
\* listRepoSyncState reads it
InitSync ==
  /\ \E l1 \in LocalChoices(1), l2 \in LocalChoices(2) : localRepos = l1 \o l2
  /\ \E r2 \in RemoteChoices(2), r3 \in RemoteChoices(3) : remoteRepos = r2 \o r3
  /\ syncPlan = NoPlan

\* no sync has been started
SyncNotStarted ==
  /\ localRepos = <<>>
  /\ remoteRepos = <<>>
  /\ syncPlan = NoPlan

\* UsagePage.tsx:513: the plan of one sync
BuildSyncPlan ==
  /\ ~syncPlan.built
  /\ syncPlan' = buildSyncPlan(localRepos, remoteRepos)
  /\ UNCHANGED <<localRepos, remoteRepos, poolVars, dbVars, runVars, chatVars, helperVars>>

NextSync == BuildSyncPlan

\* ------------------------------------------------------------------------
\* Embedding runs (src/pages/UsagePage.tsx, generateEmbeddings)
\* ------------------------------------------------------------------------
\* UsagePage.tsx:727
BATCH_SIZE == 16

NoRun == [phase |-> "idle", chunks |-> <<>>, outcome |-> "none"]

\* the chunks without an embedding, oldest first (created_at follows the
\* chunk id in the model)
RECURSIVE ChunksWithoutEmbedding(_, _)
ChunksWithoutEmbedding(database, c) ==
  IF c \notin ChunkIds THEN <<>>
  ELSE (IF /\ c \in database.chunks
           /\ \A id \in EmbeddingIds : database.embeddings[id].chunkId # c
        THEN <<c>> ELSE <<>>)
       \o ChunksWithoutEmbedding(database, c + 1)

\* client.ts:898-938 on a table that raises nothing: the first `limit` of
\* the chunks without an embedding
getChunksToEmbed(database, limit) ==
  LET all == ChunksWithoutEmbedding(database, 1)
      safeLimit == IF limit < 1 THEN 1 ELSE limit
  IN SubSeq(all, 1, Min(safeLimit, Len(all)))

\* UsagePage.tsx:815-857: the loop over the items of a batch. An item that
\* came back with an error is embedded again on its own (embedder.embed); if
\* that fails too the loop throws. The record of a chunk gets a new id
\* (crypto.randomUUID), in the model the id of its chunk.
RECURSIVE EmbedItems(_, _, _)
EmbedItems(chunks, batchErrors, retryErrors) ==
  IF chunks = <<>> THEN [threw |-> FALSE, records |-> {}]
  ELSE LET c == Head(chunks) IN
       IF c \in batchErrors /\ c \in retryErrors
       THEN [threw |-> TRUE, records |-> {}]
       ELSE LET rest == EmbedItems(Tail(chunks), batchErrors, retryErrors) IN
            IF rest.threw THEN rest
            ELSE [threw |-> FALSE,
                  records |-> {[id |-> c, chunkId |-> c, vector |-> 1]} \cup rest.records]

\* a database with two chunks, some of them embedded already, and the chunks
\* whose text the model cannot embed, neither in a batch nor alone
InitRun ==
  /\ InitStored
  /\ run = NoRun
  /\ failingChunks \in SUBSET ChunkIds

NoRunStarted ==
  /\ run = NoRun
  /\ failingChunks = {}

RunFrame ==
  UNCHANGED <<everyEmbeddings, everyMs, failingChunks, poolVars, syncVars, chatVars, helperVars>>

\* UsagePage.tsx:705-779: generateEmbeddings is called
StartRun ==
  /\ run.phase = "idle"
  /\ AllDbCallsIdle
  /\ run' = [phase |-> "selecting", chunks |-> <<>>, outcome |-> "none"]
  /\ UNCHANGED dbVars
  /\ RunFrame

\* UsagePage.tsx:781-812, 942-952: the head of the loop. With chunks left to
\* embed the batch is handed to the pool; with none the run ends with a
\* forced flush.
SelectChunks ==
  /\ run.phase = "selecting"
  /\ LET chunks == getChunksToEmbed(db, BATCH_SIZE) IN
     IF chunks # <<>>
     THEN /\ run' = [run EXCEPT !.phase = "embedding", !.chunks = chunks]
          /\ CheckpointUnchanged
          /\ UNCHANGED <<dbCalls, localStorageBytes, exportIsCurrent, writtenSinceExport>>
     ELSE /\ run' = [run EXCEPT !.phase = "finishing"]
          /\ IF pendingEmbeddingsSinceCheckpoint <= 0
             THEN /\ NothingToFlush
                  /\ UNCHANGED <<dbCalls, localStorageBytes, exportIsCurrent, writtenSinceExport>>
             ELSE flushPendingEmbeddingCheckpoint(1, db, pendingEmbeddingsSinceCheckpoint,
                                                  pendingEmbeddingsStartedAt)
  /\ CacheUnchanged
  /\ UNCHANGED <<db, opfsFile, storageMode, now>>
  /\ RunFrame

\* UsagePage.tsx:814-861 and 997-1006: the pool answers; the items are gone
\* through, and either the loop throws, which ends the run in the catch
\* block with nothing of the batch stored, or the records of the whole batch
\* are handed to upsertEmbeddings
BatchSettles ==
  /\ run.phase = "embedding"
  /\ \E batchErrors \in SUBSET ChunkIds :
       /\ failingChunks \subseteq batchErrors
       /\ LET items == EmbedItems(run.chunks, batchErrors, failingChunks) IN
          IF items.threw
          THEN /\ run' = [phase |-> "idle", chunks |-> <<>>, outcome |-> "failed"]
               /\ CacheUnchanged
               /\ CheckpointUnchanged
               /\ UNCHANGED <<db, dbCalls, localStorageBytes, exportIsCurrent, writtenSinceExport>>
          ELSE /\ run' = [run EXCEPT !.phase = "storing", !.chunks = <<>>]
               /\ EmbeddingsWritten(1, upsertEmbeddingsWrite(db, items.records, FALSE).db,
                                    Cardinality(items.records))
  /\ UNCHANGED <<opfsFile, storageMode, now>>
  /\ RunFrame

\* UsagePage.tsx:861-940: upsertEmbeddings has returned; after the timeout
\* of 0 ms the loop starts over
UpsertReturns ==
  /\ run.phase = "storing"
  /\ AllDbCallsIdle
  /\ run' = [run EXCEPT !.phase = "selecting"]
  /\ UNCHANGED dbVars
  /\ RunFrame

\* UsagePage.tsx:952-1008: the flush has returned and the run is over
RunCompletes ==
  /\ run.phase = "finishing"
  /\ AllDbCallsIdle
  /\ run' = [phase |-> "idle", chunks |-> <<>>, outcome |-> "complete"]
  /\ UNCHANGED dbVars
  /\ RunFrame

NextRun ==
  \/ StartRun
  \/ SelectChunks
  \/ BatchSettles
  \/ UpsertReturns
  \/ RunCompletes
  \/ \E k \in DbCallIds : OpfsWriteSettles(k)

\* ------------------------------------------------------------------------
\* Chat tables: rows and layouts (part_013:46-62, client.ts:202-284)
\* ------------------------------------------------------------------------
\* a time column that holds NULL or no positive number
NoTime == 0
\* a sequence column that holds NULL, or a table without the column
NoSequence == 0
\* nowMsExpr (client.ts:287), later than every time a caller passes in
NowMs == 3
\* the times the callers stamp their records with
ChatTimes == {2}
\* the highest sequence number the page asks a message to be stored with
MaxSequence == 3

SessionIds == {"s1", "s2"}
MessageIds == {"m1", "m2"}
Roles == {"user", "assistant", "system"}

SessionRow(id, query, createdAt, updatedAt) ==
  [id |-> id, query |-> query, createdAt |-> createdAt, updatedAt |-> updatedAt]

\* content and created_at of a message are carried like query and
\* created_at of a session and are left out
MessageRow(id, sessionId, role, sequence) ==
  [id |-> id, sessionId |-> sessionId, role |-> role, sequence |-> sequence]

\* TRIM(COALESCE(text, '')) over the ids of the model: NULL, the empty
\* string and whitespace come out empty
TRIM(text) == IF text \in {Null, "", " "} THEN "" ELSE text

\* COALESCE(query, '')
QueryOrEmpty(query) == IF query = Null THEN "" ELSE query

\* CASE WHEN CAST(t AS INTEGER) > 0 THEN CAST(t AS INTEGER) ELSE NULL END
PositiveTime(t) == IF t > 0 THEN t ELSE NoTime

\* COALESCE over time columns
CoalesceTime(a, b) == IF a # NoTime THEN a ELSE b

\* CASE WHEN role IN ('user','assistant','system') THEN role ELSE 'user' END
ValidRole(role) == IF role \in Roles THEN role ELSE "user"

\* CASE WHEN sequence IS NULL OR sequence < 1 THEN 1 ELSE sequence END
ValidSequence(sequence) == IF sequence < 1 THEN 1 ELSE sequence

\* a table as sqlite_master and the pragmas describe it: its columns' types,
\* its NOT NULL constraints, the triggers left on it, and its rows
SessionsTable(exists, types, notNull, trigger, rows) ==
  [exists |-> exists, types |-> types, notNull |-> notNull, trigger |-> trigger,
   rows |-> rows]

MessagesTable(exists, types, notNull, roleCheck, fk, sequence, trigger, rows) ==
  [exists |-> exists, types |-> types, notNull |-> notNull, roleCheck |-> roleCheck,
   fk |-> fk, sequence |-> sequence, trigger |-> trigger, rows |-> rows]

NoSessionsTable == SessionsTable(FALSE, FALSE, FALSE, FALSE, {})
NoMessagesTable == MessagesTable(FALSE, FALSE, FALSE, FALSE, FALSE, FALSE, FALSE, {})

\* client.ts:203-220: the tables as CREATE TABLE makes them
CanonicalSessions(rows) == SessionsTable(TRUE, TRUE, TRUE, FALSE, rows)
CanonicalMessages(rows) == MessagesTable(TRUE, TRUE, TRUE, TRUE, TRUE, TRUE, FALSE, rows)

\* client.ts:296-305, 310-318: the stand-in for a table that is missing
EmptyOldSessions == SessionsTable(TRUE, TRUE, FALSE, FALSE, {})
EmptyOldMessages == MessagesTable(TRUE, TRUE, FALSE, FALSE, FALSE, TRUE, FALSE, {})

ChatTables(sessions, messages, foreignKeys) ==
  [sessions |-> sessions, messages |-> messages, foreignKeys |-> foreignKeys]

\* client.ts:202-225: CREATE TABLE IF NOT EXISTS leaves a table that exists
createCanonicalChatTables(c) ==
  [c EXCEPT
     !.sessions = IF c.sessions.exists THEN c.sessions ELSE CanonicalSessions({}),
     !.messages = IF c.messages.exists THEN c.messages ELSE CanonicalMessages({})]

\* client.ts:227-246
hasChatMessagesForeignKey(c) == c.messages.exists /\ c.messages.fk

\* client.ts:248-262
isChatSessionsCompatible(c) ==
  c.sessions.exists /\ c.sessions.types /\ c.sessions.notNull

\* client.ts:264-284
isChatMessagesCompatible(c) ==
  /\ c.messages.exists
  /\ c.messages.types
  /\ c.messages.sequence
  /\ c.messages.notNull
  /\ c.messages.roleCheck
  /\ hasChatMessagesForeignKey(c)

\* the shape of both tables, rows and pragma apart
IsCanonical(c) ==
  /\ isChatSessionsCompatible(c)
  /\ isChatMessagesCompatible(c)

\* ------------------------------------------------------------------------
\* Chat tables: the rebuild (client.ts:286-395)
\* ------------------------------------------------------------------------
\* the statements of the rebuild in the groups a failure can strike at
RebuildSteps == 5

\* client.ts:326-350: the sessions with an id, their times made positive
CopiedSessions(old) ==
  { SessionRow(TRIM(s.id), QueryOrEmpty(s.query),
               CoalesceTime(PositiveTime(s.createdAt),
                            CoalesceTime(PositiveTime(s.updatedAt), NowMs)),
               CoalesceTime(PositiveTime(s.updatedAt),
                            CoalesceTime(PositiveTime(s.createdAt), NowMs)))
      : s \in {r \in old.rows : TRIM(r.id) # ""} }

\* a copy that takes only the messages whose role is one of the three
CopiedMessagesOfValidRole(old, sessions) ==
  { MessageRow(TRIM(m.id), TRIM(m.sessionId), m.role, ValidSequence(m.sequence))
      : m \in {r \in old.rows :
                 /\ TRIM(r.id) # ""
                 /\ TRIM(r.sessionId) # ""
                 /\ r.role \in Roles
                 /\ \E s \in sessions : s.id = TRIM(r.sessionId)} }

\* client.ts:352-384: the messages with an id whose session was copied
CopiedMessages(old, sessions) ==
  { MessageRow(TRIM(m.id), TRIM(m.sessionId), ValidRole(m.role),
               ValidSequence(IF old.sequence THEN m.sequence ELSE 1))
      : m \in {r \in old.rows :
                 /\ TRIM(r.id) # ""
                 /\ TRIM(r.sessionId) # ""
                 /\ \E s \in sessions : s.id = TRIM(r.sessionId)} }

\* client.ts:290-320: both tables renamed, their triggers with them; a table
\* that is missing gets an empty stand-in
RenamedAway(c) ==
  [cur |-> [c EXCEPT !.sessions = NoSessionsTable, !.messages = NoMessagesTable],
   sessionsOld |-> IF c.sessions.exists THEN c.sessions ELSE EmptyOldSessions,
   messagesOld |-> IF c.messages.exists THEN c.messages ELSE EmptyOldMessages]

\* client.ts:322-324
CanonicalCreated(work) == [work EXCEPT !.cur = createCanonicalChatTables(@)]

\* client.ts:326-350
SessionsCopied(work) == [work EXCEPT !.cur.sessions.rows = CopiedSessions(work.sessionsOld)]

\* client.ts:352-384
MessagesCopied(work) ==
  [work EXCEPT !.cur.messages.rows = CopiedMessages(work.messagesOld, work.cur.sessions.rows)]

\* the tables after the first n groups of statements of the transaction
RebuildAfter(c, n) ==
  CASE n = 0 -> c
    [] n = 1 -> RenamedAway(c).cur
    [] n = 2 -> CanonicalCreated(RenamedAway(c)).cur
    [] n = 3 -> SessionsCopied(CanonicalCreated(RenamedAway(c))).cur
    [] OTHER -> MessagesCopied(SessionsCopied(CanonicalCreated(RenamedAway(c)))).cur

\* a failed transaction that is left as far as it got
NoRollback(work, begun) == work

\* client.ts:389-390: ROLLBACK gives back the tables as BEGIN found them
Rollback(work, begun) == begun

\* client.ts:289-394 on the database with foreign keys switched off; they are
\* switched on in finally
RebuildFrom(begun, failAt) ==
  IF failAt \in 1..RebuildSteps
  THEN [threw |-> TRUE,
        chat |-> [Rollback(RebuildAfter(begun, failAt - 1), begun) EXCEPT !.foreignKeys = TRUE]]
  ELSE [threw |-> FALSE,
        chat |-> [RebuildAfter(begun, RebuildSteps) EXCEPT !.foreignKeys = TRUE]]

\* client.ts:286-395; failAt names the group of statements that raises, 0
\* for none
rebuildChatTablesPreservingData(c, failAt) ==
  RebuildFrom([c EXCEPT !.foreignKeys = FALSE], failAt)

\* client.ts:397-433; with foreign keys on a deleted session takes its
\* messages along
normalizeChatRows(c) ==
  LET sessions == { SessionRow(s.id, QueryOrEmpty(s.query),
                               CoalesceTime(PositiveTime(s.createdAt),
                                            CoalesceTime(PositiveTime(s.updatedAt), NowMs)),
                               CoalesceTime(PositiveTime(s.updatedAt),
                                            CoalesceTime(PositiveTime(s.createdAt), NowMs)))
                      : s \in {r \in c.sessions.rows : TRIM(r.id) # ""} }
      messages == { MessageRow(m.id, TRIM(m.sessionId), ValidRole(m.role),
                               ValidSequence(m.sequence))
                      : m \in {r \in c.messages.rows :
                                 /\ TRIM(r.id) # ""
                                 /\ TRIM(r.sessionId) # ""
                                 /\ \E s \in sessions : s.id = TRIM(r.sessionId)} }
  IN [c EXCEPT !.sessions.rows = sessions, !.messages.rows = messages]

\* client.ts:439-441: ALTER TABLE ADD COLUMN sequence ... DEFAULT 1
AddSequenceColumn(c) ==
  IF c.messages.exists /\ ~c.messages.sequence
  THEN [c EXCEPT !.messages.sequence = TRUE,
                 !.messages.rows = {MessageRow(m.id, m.sessionId, m.role, 1) : m \in @}]
  ELSE c

\* client.ts:446-448, or the error of the rebuild passed on
SchemaEnsured(rebuilt, altered, compatible) ==
  IF rebuilt.threw
  THEN [threw |-> TRUE, rebuilt |-> TRUE, before |-> altered, chat |-> rebuilt.chat]
  ELSE [threw |-> FALSE, rebuilt |-> ~compatible, before |-> altered,
        chat |-> normalizeChatRows(createCanonicalChatTables(rebuilt.chat))]

\* client.ts:443-445
RebuildIfIncompatible(altered, compatible, failAt) ==
  SchemaEnsured(IF compatible THEN [threw |-> FALSE, chat |-> altered]
                ELSE rebuildChatTablesPreservingData(altered, failAt),
                altered, compatible)

\* the two checks of client.ts:443 on the tables with their sequence column
CheckCompatible(altered, failAt) ==
  RebuildIfIncompatible(altered,
                        isChatSessionsCompatible(altered) /\ isChatMessagesCompatible(altered),
                        failAt)

\* client.ts:435-449
ensureChatSchema(c, failAt) == CheckCompatible(AddSequenceColumn(c), failAt)

\* client.ts:451-464 with part_013:2, 46-62: the pragma, the tables created
\* where there are none, then the chat schema looked after
runSchema(c, failAt) ==
  ensureChatSchema(createCanonicalChatTables([c EXCEPT !.foreignKeys = TRUE]), failAt)

\* ------------------------------------------------------------------------
\* Chat tables: the statements and the writes (client.ts:1095-1264, 1410-1614)
\* ------------------------------------------------------------------------
\* an error of the engine that has nothing to do with the schema
DiskFull == "database or disk is full"

\* what can go wrong in one write: nothing, such an error at one of its
\* statements, or one of the steps of a rebuild raising
MessageFaults ==
  {"none", "ensure", "ensureRetry", "message", "messageRetry",
   "rename", "create", "copySessions", "copyMessages", "commit"}
SessionFaults ==
  {"none", "session", "sessionRetry",
   "rename", "create", "copySessions", "copyMessages", "commit"}

\* the step of the rebuild that raises, 0 for none
FailAt(fault) ==
  CASE fault = "rename" -> 1
    [] fault = "create" -> 2
    [] fault = "copySessions" -> 3
    [] fault = "copyMessages" -> 4
    [] fault = "commit" -> 5
    [] OTHER -> 0

Statement(ok, message, changes, c) ==
  [ok |-> ok, message |-> message, changes |-> changes, chat |-> c]

\* no tables, the value kept where no rebuild has failed
NoChat == ChatTables(NoSessionsTable, NoMessagesTable, FALSE)

\* what one write comes to: how it ended, the tables it leaves, the rebuilds
\* and the retries it went through, and the tables a failed rebuild began on
Written(outcome, c, heals, retries, rebuildFailed, before) ==
  [outcome |-> outcome, chat |-> c, heals |-> heals, retries |-> retries,
   rebuildFailed |-> rebuildFailed, before |-> before]

\* client.ts:1095-1099
chatSessionExists(c, sessionId) ==
  c.sessions.exists /\ \E s \in c.sessions.rows : s.id = sessionId

\* an ensure that writes the session row anew whether or not it is stored
ensureOnceReplacing(c, sessionId, safeNow, fault) ==
  IF fault THEN Statement(FALSE, DiskFull, 0, c)
  ELSE IF ~c.sessions.exists THEN Statement(FALSE, "no such table: chat_sessions", 0, c)
  ELSE IF c.sessions.trigger /\ c.sessions.notNull
  THEN Statement(FALSE, "NOT NULL constraint failed: chat_sessions.created_at", 0, c)
  ELSE Statement(TRUE, Null, 1,
         [c EXCEPT !.sessions.rows =
            {s \in @ : s.id # sessionId} \cup {SessionRow(sessionId, "", safeNow, safeNow)}])

\* client.ts:1107-1130: INSERT ... WHERE NOT EXISTS, then the UPDATE that
\* fills the columns found NULL. A trigger left on the table fires on the
\* inserted row and makes the NOT NULL constraint fail.
ensureOnce(c, sessionId, safeNow, fault) ==
  IF fault THEN Statement(FALSE, DiskFull, 0, c)
  ELSE IF ~c.sessions.exists THEN Statement(FALSE, "no such table: chat_sessions", 0, c)
  ELSE IF chatSessionExists(c, sessionId)
  THEN Statement(TRUE, Null, 1,
         [c EXCEPT !.sessions.rows =
            { IF s.id = sessionId
              THEN SessionRow(s.id, QueryOrEmpty(s.query),
                              CoalesceTime(s.createdAt, safeNow),
                              CoalesceTime(s.updatedAt, safeNow))
              ELSE s : s \in @ }])
  ELSE IF c.sessions.trigger /\ c.sessions.notNull
  THEN Statement(FALSE, "NOT NULL constraint failed: chat_sessions.created_at", 0, c)
  ELSE Statement(TRUE, Null, 1,
         [c EXCEPT !.sessions.rows = @ \cup {SessionRow(sessionId, "", safeNow, safeNow)}])

\* client.ts:1138-1143, 1425-1430
shouldHealSession(message) ==
  \/ includes(message, "not null constraint failed: chat_sessions.created_at")
  \/ includes(message, "not null constraint failed: chat_sessions.id")
  \/ includes(message, "datatype mismatch")
  \/ includes(message, "no such table: chat_sessions")

\* client.ts:1578-1583
shouldHealMessage(message) ==
  \/ includes(message, "not null constraint failed: chat_messages.session_id")
  \/ includes(message, "datatype mismatch")
  \/ includes(message, "no such table: chat_messages")
  \/ includes(message, "foreign key constraint failed")
  \/ includes(message, "chat message insert did not affect rows")

\* client.ts:1150-1165: the one retry and the look whether the row is there
EnsureRetried(retry, sessionId) ==
  IF ~retry.ok \/ ~chatSessionExists(retry.chat, sessionId)
  THEN Written("diagnostic", retry.chat, 1, 1, FALSE, NoChat)
  ELSE Written("ok", retry.chat, 1, 1, FALSE, NoChat)

\* client.ts:1149-1150: the rebuild, whose error is passed on
EnsureHealed(healed, before, sessionId, safeNow, fault) ==
  IF healed.threw
  THEN Written("raised", healed.chat, 1, 0, TRUE, before)
  ELSE EnsureRetried(ensureOnce(healed.chat, sessionId, safeNow, fault = "ensureRetry"),
                     sessionId)

\* client.ts:1132-1149
EnsureTried(first, sessionId, safeNow, fault, failAt) ==
  IF first.ok /\ chatSessionExists(first.chat, sessionId)
  THEN Written("ok", first.chat, 0, 0, FALSE, NoChat)
  ELSE IF ~first.ok /\ ~shouldHealSession(toLowerCase(first.message))
  THEN Written("raised", first.chat, 0, 0, FALSE, NoChat)
  ELSE EnsureHealed(rebuildChatTablesPreservingData(first.chat, failAt), first.chat,
                    sessionId, safeNow, fault)

\* client.ts:1101-1166
ensureSessionExistsForMessage(c, sessionId, safeNow, fault, failAt) ==
  EnsureTried(ensureOnce(c, sessionId, safeNow, fault = "ensure"),
              sessionId, safeNow, fault, failAt)

\* client.ts:1209-1231: INSERT ... ON CONFLICT(id) DO UPDATE
runChatSessionUpsert(c, id, query, createdAt, updatedAt, fault) ==
  IF fault THEN Statement(FALSE, DiskFull, 0, c)
  ELSE IF ~c.sessions.exists THEN Statement(FALSE, "no such table: chat_sessions", 0, c)
  ELSE IF chatSessionExists(c, id)
  THEN Statement(TRUE, Null, 1,
         [c EXCEPT !.sessions.rows =
            { IF s.id = id
              THEN SessionRow(s.id, QueryOrEmpty(query),
                              CoalesceTime(s.createdAt, createdAt), updatedAt)
              ELSE s : s \in @ }])
  ELSE IF c.sessions.trigger /\ c.sessions.notNull
  THEN Statement(FALSE, "NOT NULL constraint failed: chat_sessions.created_at", 0, c)
  ELSE Statement(TRUE, Null, 1,
         [c EXCEPT !.sessions.rows =
            @ \cup {SessionRow(id, QueryOrEmpty(query), createdAt, updatedAt)}])

\* client.ts:1233-1264: INSERT ... SELECT ... FROM chat_sessions WHERE id is
\* the session's, ON CONFLICT(id) DO UPDATE; no session, no row
runChatMessageUpsert(c, id, sessionId, role, sequence, fault) ==
  IF fault THEN Statement(FALSE, DiskFull, 0, c)
  ELSE IF ~c.messages.exists THEN Statement(FALSE, "no such table: chat_messages", 0, c)
  ELSE IF ~chatSessionExists(c, sessionId) THEN Statement(TRUE, Null, 0, c)
  ELSE IF \E m \in c.messages.rows : m.id = id
  THEN Statement(TRUE, Null, 1,
         [c EXCEPT !.messages.rows =
            {m \in @ : m.id # id} \cup {MessageRow(id, sessionId, role, sequence)}])
  ELSE IF c.messages.trigger /\ c.messages.notNull
  THEN Statement(FALSE, "NOT NULL constraint failed: chat_messages.session_id", 0, c)
  ELSE Statement(TRUE, Null, 1,
         [c EXCEPT !.messages.rows = @ \cup {MessageRow(id, sessionId, role, sequence)}])

\* client.ts:1568-1576, 1596-1604: the upsert and the look at changes()
MessageWrite(c, id, sessionId, role, sequence, fault) ==
  LET upsert == runChatMessageUpsert(c, id, sessionId, role, sequence, fault) IN
  IF upsert.ok /\ upsert.changes < 1
  THEN Statement(FALSE, "chat message insert did not affect rows", 0, c)
  ELSE upsert

\* a retry that, failing, is followed by another rebuild and another retry
MessageRetriedAndHealedAgain(retry, heals, retries) ==
  IF retry.ok
  THEN Written("ok", retry.chat, heals, retries, FALSE, NoChat)
  ELSE Written("diagnostic", rebuildChatTablesPreservingData(retry.chat, 0).chat,
               heals + 1, retries + 1, FALSE, NoChat)

\* client.ts:1596-1611: the one retry of the upsert
MessageRetried(retry, heals, retries) ==
  IF retry.ok
  THEN Written("ok", retry.chat, heals, retries, FALSE, NoChat)
  ELSE Written("diagnostic", retry.chat, heals, retries, FALSE, NoChat)

\* client.ts:1590-1596: the session looked after once more on the rebuilt
\* tables
MessageSessionEnsuredAgain(again, heals, retries, id, sessionId, role, sequence, fault) ==
  IF again.outcome # "ok"
  THEN Written(again.outcome, again.chat, heals + again.heals, retries + again.retries,
               again.rebuildFailed, again.before)
  ELSE IF ~chatSessionExists(again.chat, sessionId)
  THEN Written("raised", again.chat, heals + again.heals, retries + again.retries,
               FALSE, NoChat)
  ELSE MessageRetried(MessageWrite(again.chat, id, sessionId, role, sequence,
                                   fault = "messageRetry"),
                      heals + again.heals, retries + again.retries + 1)

\* client.ts:1589-1590: the rebuild, whose error is passed on
MessageHealed(healed, before, heals, retries, id, sessionId, role, sequence, createdAt, fault, failAt) ==
  IF healed.threw
  THEN Written("raised", healed.chat, heals + 1, retries, TRUE, before)
  ELSE MessageSessionEnsuredAgain(
         ensureSessionExistsForMessage(healed.chat, sessionId, createdAt, "none", failAt),
         heals + 1, retries, id, sessionId, role, sequence, fault)

\* client.ts:1566-1589
MessageTried(first, heals, retries, id, sessionId, role, sequence, createdAt, fault, failAt) ==
  IF first.ok
  THEN Written("ok", first.chat, heals, retries, FALSE, NoChat)
  ELSE IF ~shouldHealMessage(toLowerCase(first.message))
  THEN Written("raised", first.chat, heals, retries, FALSE, NoChat)
  ELSE MessageHealed(rebuildChatTablesPreservingData(first.chat, failAt), first.chat,
                     heals, retries, id, sessionId, role, sequence, createdAt, fault, failAt)

\* client.ts:1559-1566
MessageSessionEnsured(ensured, id, sessionId, role, sequence, createdAt, fault, failAt) ==
  IF ensured.outcome # "ok" THEN ensured
  ELSE IF ~chatSessionExists(ensured.chat, sessionId)
  THEN Written("raised", ensured.chat, ensured.heals, ensured.retries, FALSE, NoChat)
  ELSE MessageTried(MessageWrite(ensured.chat, id, sessionId, role, sequence,
                                 fault = "message"),
                    ensured.heals, ensured.retries, id, sessionId, role, sequence,
                    createdAt, fault, failAt)

\* client.ts:1545-1559 with the record's fields made safe
MessageChecked(c, id, sessionId, role, sequence, createdAt, fault, failAt) ==
  IF id = "" \/ sessionId = ""
  THEN Written("raised", c, 0, 0, FALSE, NoChat)
  ELSE MessageSessionEnsured(
         ensureSessionExistsForMessage(c, sessionId, createdAt, fault, failAt),
         id, sessionId, role, sequence, createdAt, fault, failAt)

\* client.ts:1544-1612, the call up to its persist()
addChatMessage(c, messageId, messageSessionId, messageRole, messageSequence, createdAt, fault, failAt) ==
  MessageChecked(c, TRIM(messageId), TRIM(messageSessionId),
                 IF messageRole \in {"assistant", "system"} THEN messageRole ELSE "user",
                 IF messageSequence < 1 THEN 1 ELSE messageSequence,
                 createdAt, fault, failAt)

\* client.ts:1445-1463: one more upsert for a session found missing
SessionFallback(fallback, id, heals, retries) ==
  IF ~fallback.ok \/ ~chatSessionExists(fallback.chat, id)
  THEN Written("diagnostic", fallback.chat, heals, retries + 1, FALSE, NoChat)
  ELSE Written("ok", fallback.chat, heals, retries + 1, FALSE, NoChat)

\* client.ts:1445
SessionUpserted(upserted, id, query, createdAt, updatedAt) ==
  IF upserted.outcome # "ok" \/ chatSessionExists(upserted.chat, id)
  THEN upserted
  ELSE SessionFallback(runChatSessionUpsert(upserted.chat, id, query, createdAt, updatedAt,
                                            FALSE),
                       id, upserted.heals, upserted.retries)

\* client.ts:1436-1443: the one retry of the upsert
SessionRetried(retry) ==
  IF ~retry.ok
  THEN Written("diagnostic", retry.chat, 1, 1, FALSE, NoChat)
  ELSE Written("ok", retry.chat, 1, 1, FALSE, NoChat)

\* client.ts:1435-1436: the rebuild, whose error is passed on
SessionHealed(healed, before, id, query, createdAt, updatedAt, fault) ==
  IF healed.threw
  THEN Written("raised", healed.chat, 1, 0, TRUE, before)
  ELSE SessionRetried(runChatSessionUpsert(healed.chat, id, query, createdAt, updatedAt,
                                           fault = "sessionRetry"))

\* client.ts:1421-1435
SessionTried(first, id, query, createdAt, updatedAt, fault, failAt) ==
  IF first.ok THEN Written("ok", first.chat, 0, 0, FALSE, NoChat)
  ELSE IF ~shouldHealSession(toLowerCase(first.message))
  THEN Written("raised", first.chat, 0, 0, FALSE, NoChat)
  ELSE SessionHealed(rebuildChatTablesPreservingData(first.chat, failAt), first.chat,
                     id, query, createdAt, updatedAt, fault)

\* client.ts:1411-1421 with the record's id trimmed
SessionChecked(c, id, query, createdAt, updatedAt, fault, failAt) ==
  IF id = ""
  THEN Written("raised", c, 0, 0, FALSE, NoChat)
  ELSE SessionUpserted(
         SessionTried(runChatSessionUpsert(c, id, query, createdAt, updatedAt,
                                           fault = "session"),
                      id, query, createdAt, updatedAt, fault, failAt),
         id, query, createdAt, updatedAt)

\* client.ts:1410-1465, the call up to its persist()
upsertChatSession(c, sessionId, sessionQuery, createdAt, updatedAt, fault, failAt) ==
  SessionChecked(c, TRIM(sessionId), sessionQuery, createdAt, updatedAt, fault, failAt)

\* client.ts:1522-1542: COALESCE(MAX(sequence), 0) + 1 over the session
getNextChatMessageSequence(c, sessionId) ==
  LET normalizedSessionId == TRIM(sessionId)
      stored == {m.sequence : m \in {r \in c.messages.rows : r.sessionId = normalizedSessionId}}
  IN IF normalizedSessionId = "" \/ stored = {} THEN 1
     ELSE (CHOOSE s \in stored : \A o \in stored : o <= s) + 1

\* ------------------------------------------------------------------------
\* Chat tables: the stored databases an open can find
\* ------------------------------------------------------------------------
\* the rows an earlier version of the page can have left
LegacySessionRows(notNull) ==
  {SessionRow("s1", "q", 1, 1), SessionRow(" ", "q", 1, 1)}
    \cup (IF notNull THEN {} ELSE {SessionRow("s2", Null, NoTime, 2)})

LegacyMessageRows(notNull, roleCheck, fk, sequence) ==
  {MessageRow("m1", "s1", "user", IF sequence THEN 1 ELSE NoSequence),
   MessageRow("m2", "s1", IF roleCheck THEN "assistant" ELSE "bogus",
              IF sequence THEN 2 ELSE NoSequence)}
    \cup (IF fk THEN {} ELSE {MessageRow("m3", "s9", "user", IF sequence THEN 1 ELSE NoSequence),
                              MessageRow("", "s1", "user", IF sequence THEN 1 ELSE NoSequence)})
    \cup (IF notNull THEN {} ELSE {MessageRow("m4", Null, "user", IF sequence THEN 1 ELSE NoSequence)})

\* the layouts of the chat tables: the canonical one, the two of
\* part_012:30-46 and 93-110, and one with columns of another type
CanonicalLayout == ChatTables(CanonicalSessions({}), CanonicalMessages({}), TRUE)

NullableLayout ==
  ChatTables(SessionsTable(TRUE, TRUE, FALSE, FALSE, {}),
             MessagesTable(TRUE, TRUE, FALSE, FALSE, FALSE, FALSE, FALSE, {}), TRUE)

NoForeignKeyLayout ==
  ChatTables(CanonicalSessions({}),
             MessagesTable(TRUE, TRUE, TRUE, FALSE, FALSE, TRUE, FALSE, {}), TRUE)

UntypedLayout ==
  ChatTables(SessionsTable(TRUE, FALSE, TRUE, FALSE, {}),
             MessagesTable(TRUE, FALSE, TRUE, TRUE, TRUE, TRUE, FALSE, {}), TRUE)

\* a foreign key that is declared holds for the rows that are stored
ForeignKeysHold(c) ==
  c.messages.fk => \A m \in c.messages.rows : chatSessionExists(c, m.sessionId)

\* the triggers found left on the two tables: any on tables that are kept,
\* none or both on tables that are rebuilt and lose them
LegacyTriggers(layout) ==
  IF IsCanonical(layout) THEN BOOLEAN \X BOOLEAN ELSE {<<FALSE, FALSE>>, <<TRUE, TRUE>>}

\* a layout with triggers left on it or not and with rows its constraints
\* let in
LegacyDatabasesOf(layout) ==
  { c \in { [layout EXCEPT !.sessions.rows = sessions, !.sessions.trigger = triggers[1],
                           !.messages.rows = messages, !.messages.trigger = triggers[2]]
             : triggers \in LegacyTriggers(layout),
               sessions \in SUBSET LegacySessionRows(layout.sessions.notNull),
               messages \in SUBSET LegacyMessageRows(layout.messages.notNull,
                                                     layout.messages.roleCheck,
                                                     layout.messages.fk,
                                                     layout.messages.sequence) }
      : ForeignKeysHold(c) }

\* the layouts of the stored databases
LegacyLayouts == <<CanonicalLayout, NullableLayout, NoForeignKeyLayout, UntypedLayout>>

\* ------------------------------------------------------------------------
\* Chat tables: operations
\* ------------------------------------------------------------------------
ChatOp(op, id, sessionId, faulted, written, left) ==
  [op |-> op, id |-> id, sessionId |-> sessionId, faulted |-> faulted,
   outcome |-> written.outcome, heals |-> written.heals, retries |-> written.retries,
   rebuildFailed |-> written.rebuildFailed, before |-> written.before, left |-> left]

NoChatOp == ChatOp("none", "", "", FALSE, Written("ok", NoChat, 0, 0, FALSE, NoChat), NoChat)

InitChat ==
  /\ chat = NoChat
  /\ chatOpened = FALSE
  /\ \/ chatExport = NoChat
     \/ \E i \in DOMAIN LegacyLayouts : chatExport \in LegacyDatabasesOf(LegacyLayouts[i])
  /\ lastChatOp = NoChatOp

ChatNotOpened ==
  /\ chat = NoChat
  /\ chatOpened = FALSE
  /\ chatExport = NoChat
  /\ lastChatOp = NoChatOp

ChatFrame == UNCHANGED <<poolVars, dbVars, syncVars, runVars, helperVars>>

\* client.ts:1659-1668: the database that runSchema went through, or a fresh
\* one with the stored file cleared when runSchema raised
Opened(loaded, faulted) ==
  IF loaded.threw
  THEN /\ chat' = runSchema(NoChat, 0).chat
       /\ chatExport' = NoChat
       /\ lastChatOp' = ChatOp("open", "", "", TRUE,
                                Written("raised", loaded.chat, 1, 0, TRUE, loaded.before),
                                loaded.chat)
  ELSE /\ chat' = loaded.chat
       /\ chatExport' = chatExport
       /\ lastChatOp' = ChatOp("open", "", "", faulted,
                                Written("ok", loaded.chat, IF loaded.rebuilt THEN 1 ELSE 0,
                                        0, FALSE, NoChat),
                                NoChat)

\* getLocalDatabase (client.ts:1640-1681): the stored bytes are loaded and
\* runSchema is run on them
Open ==
  /\ ~chatOpened
  /\ \E failAt \in 0..RebuildSteps : Opened(runSchema(chatExport, failAt), failAt # 0)
  /\ chatOpened' = TRUE
  /\ ChatFrame

\* what a write leaves behind: the tables as it left them, exported by
\* persist() when it came to its end (client.ts:1467, 1614, 699-700)
ChatWritten(op, id, sessionId, faulted, written) ==
  /\ chat' = written.chat
  /\ chatExport' = IF written.outcome = "ok" THEN written.chat ELSE chatExport
  /\ lastChatOp' = ChatOp(op, id, sessionId, faulted, written,
                          IF written.rebuildFailed THEN written.chat ELSE NoChat)
  /\ UNCHANGED chatOpened
  /\ ChatFrame

\* client.ts:1410-1468
UpsertChatSession ==
  /\ chatOpened
  /\ \E id \in SessionIds \cup {" "}, t \in ChatTimes, fault \in SessionFaults :
       ChatWritten("upsertChatSession", "", TRIM(id), fault # "none",
                   upsertChatSession(chat, id, "q", t, t, fault, FailAt(fault)))

\* client.ts:1544-1615 called with a record of the caller's making
AddChatMessage ==
  /\ chatOpened
  /\ \E id \in MessageIds \cup {" "}, sessionId \in {"s1", " "},
        sequence \in {0, 2}, t \in ChatTimes,
        fault \in {"none", "ensureRetry", "message", "messageRetry"} :
       ChatWritten("addChatMessage", TRIM(id), TRIM(sessionId), fault # "none",
                   addChatMessage(chat, id, sessionId, "bogus", sequence, t, fault,
                                  FailAt(fault)))

\* UsagePage.tsx:1192-1202, 1229-1239: the page stores a prompt or an answer
\* under a new id with the next sequence number of the session
SendPrompt ==
  /\ chatOpened
  /\ \E id \in MessageIds, sessionId \in SessionIds, t \in ChatTimes,
        fault \in MessageFaults :
       /\ \A m \in chat.messages.rows : m.id # id
       /\ getNextChatMessageSequence(chat, sessionId) <= MaxSequence
       /\ ChatWritten("addChatMessage", id, sessionId, fault # "none",
                      addChatMessage(chat, id, sessionId, "assistant",
                                     getNextChatMessageSequence(chat, sessionId), t,
                                     fault, FailAt(fault)))

\* client.ts:1619-1633: a new database with the schema run on it takes the
\* place of the old one and is exported
ClearAllChatData ==
  /\ chatOpened
  /\ ChatWritten("clearAllData", "", "", FALSE,
                 Written("ok", runSchema(NoChat, 0).chat, 0, 0, FALSE, NoChat))

NextChat ==
  \/ Open
  \/ UpsertChatSession
  \/ AddChatMessage
  \/ SendPrompt
  \/ ClearAllChatData

\* ------------------------------------------------------------------------
\* clearAllData (client.ts:1619-1632) and the calls of the database
\* ------------------------------------------------------------------------
\* the chat tables of a database that is new and has the schema run on it
FreshChat == runSchema(NoChat, 0).chat

ClearedChatOp == ChatOp("clearAllData", "", "", FALSE, Written("ok", FreshChat, 0, 0, FALSE, NoChat), NoChat)

ClearFrame == UNCHANGED <<everyEmbeddings, everyMs, chatOpened, poolVars, syncVars, runVars, helperVars>>

\* client.ts:1619-1629: clearAllData up to its first await
ClearAllData(k) ==
  /\ FreeDbSlot(k)
  /\ db' = EmptyDb
  /\ chat' = IF chatOpened THEN FreshChat ELSE chat
  /\ lastChatOp' = IF chatOpened THEN ClearedChatOp ELSE lastChatOp
  /\ InvalidateCache
  /\ pendingEmbeddingsSinceCheckpoint' = 0
  /\ pendingEmbeddingsStartedAt' = 0
  /\ lastEmbeddingCheckpointAt' = NoCheckpointYet
  /\ flushed' = NotReturned
  /\ dbCalls' = [dbCalls EXCEPT ![k] = [state |-> "clearing", after |-> "cleared", bytes |-> NoBytes]]
  /\ writtenSinceExport' = 0
  /\ exportIsCurrent' = FALSE
  /\ UNCHANGED <<opfsFile, localStorageBytes, storageMode, now, chatExport>>
  /\ ClearFrame

\* client.ts:88-99, 1629-1631: the OPFS file is removed, the localStorage
\* entry is removed, and the database as it is by now is persisted
ClearOpfsSettles(k) ==
  /\ dbCalls[k].state = "clearing"
  /\ opfsFile' = NoBytes
  /\ exportIsCurrent' = TRUE
  /\ writtenSinceExport' = 0
  /\ IF storageMode = "opfs"
     THEN /\ dbCalls' = [dbCalls EXCEPT ![k] =
                           [state |-> "writing", after |-> "cleared", bytes |-> export(db)]]
          /\ localStorageBytes' = NoBytes
     ELSE /\ dbCalls' = [dbCalls EXCEPT ![k] = IdleDbCall]
          /\ localStorageBytes' = export(db)
  /\ chatExport' = IF chatOpened THEN chat ELSE chatExport
  /\ CacheUnchanged
  /\ CheckpointUnchanged
  /\ UNCHANGED <<db, storageMode, now, chat, lastChatOp>>
  /\ ClearFrame

NextDb ==
  \/ \E k \in DbCallIds : UpsertRepos(k)
  \/ \E k \in DbCallIds : UpsertChunks(k)
  \/ \E k \in DbCallIds : DeleteReposByIds(k)
  \/ \E k \in DbCallIds : DeleteChunksByRepoIds(k)
  \/ \E k \in DbCallIds : UpsertEmbeddings(k)
  \/ \E k \in DbCallIds : FlushPendingEmbeddingCheckpoint(k)
  \/ \E k \in DbCallIds : OpfsWriteSettles(k)
  \/ \E k \in DbCallIds : ClearAllData(k)
  \/ \E k \in DbCallIds : ClearOpfsSettles(k)
  \/ GetChunksToEmbed
  \/ FindSimilarChunks
  \/ Tick

\* ------------------------------------------------------------------------
\* Checksums of repositories (unnamed/part_009)
\* ------------------------------------------------------------------------
\* Array.prototype.join
RECURSIVE join(_, _)
join(parts, separator) ==
  IF parts = <<>> THEN ""
  ELSE IF Len(parts) = 1 THEN Head(parts)
  ELSE Head(parts) \o separator \o join(Tail(parts), separator)

\* value ?? ""
OrEmpty(value) == IF value = Null THEN "" ELSE value

\* a checksum input whose topics stay in the order GitHub sent them in
canonicalChecksumInputUnsorted(repo, readmeSha256) ==
  join(<<"id:" \o ToString(repo.id),
         "full_name:" \o repo.full_name,
         "description:" \o OrEmpty(repo.description),
         "language:" \o OrEmpty(repo.language),
         "topics:" \o join(TopicsOrEmpty(repo), ","),
         "updated_at:" \o repo.updated_at,
         "readme_sha256:" \o readmeSha256>>, "\n")

\* part_009:12-25
canonicalChecksumInput(repo, readmeSha256) ==
  LET stableTopics == sort(TopicsOrEmpty(repo)) IN
  join(<<"id:" \o ToString(repo.id),
         "full_name:" \o repo.full_name,
         "description:" \o OrEmpty(repo.description),
         "language:" \o OrEmpty(repo.language),
         "topics:" \o join(stableTopics, ","),
         "updated_at:" \o repo.updated_at,
         "readme_sha256:" \o readmeSha256>>, "\n")

\* GitHubStarredRepo (github/types.ts:1-18), the checksummed fields: a
\* description and a language can be null, the topics can be missing, and a
\* description is free text
StarredRepos ==
  [id : {1, 2},
   full_name : {"owner/repo", "owner/renamed"},
   description : {Null, "", "d1\nlanguage:TypeScript"},
   language : {Null, "", "TypeScript"},
   hasTopics : BOOLEAN,
   topics : {<<>>, <<"alpha", "zeta">>, <<"zeta", "alpha">>},
   updated_at : {"2026-01-01", "2026-02-01"}]

ReadmeHashes == {"abc123", "def456"}

ChecksumArgs ==
  {a \in [repo : StarredRepos, readmeSha256 : ReadmeHashes] :
     a.repo.hasTopics \/ a.repo.topics = <<>>}

NotComputed == <<>>

\* two repositories as a sync fetched them
InitChecksum ==
  /\ checksumArgs \in ChecksumArgs \X ChecksumArgs
  /\ checksumInputs = NotComputed

ChecksumIdle ==
  /\ checksumArgs = <<>>
  /\ checksumInputs = NotComputed

HelperFrame == UNCHANGED <<poolVars, dbVars, syncVars, runVars, chatVars>>

\* the checksum input of each of the two is built
CanonicalChecksumInputs ==
  /\ checksumInputs = NotComputed
  /\ checksumInputs' = <<canonicalChecksumInput(checksumArgs[1].repo, checksumArgs[1].readmeSha256),
                         canonicalChecksumInput(checksumArgs[2].repo, checksumArgs[2].readmeSha256)>>
  /\ UNCHANGED <<checksumArgs, searchVars, lastDbCall, chunkVars, pipelineVars, orderVars, vectorVars, cycleVars, embedderVars, generationVars, readmeVars, splitVars>>
  /\ HelperFrame

NextChecksum == CanonicalChecksumInputs

\* ------------------------------------------------------------------------
\* Vector search (src/db/client.ts:536-552, 618-697)
\* ------------------------------------------------------------------------

MaxRows == 3

\* Vectors are pairs of integers of length 0 or 5, so that Math.sqrt of the
\* squared norm is exact; <<5>> has another dimension than the query.
SearchVectors == {<<5, 0>>, <<0, 5>>, <<3, 4>>, <<4, 3>>, <<0, 0>>, <<5>>}

QueryVectors == {<<5, 0>>, <<3, 4>>, <<0, 0>>}

Sqrt(n) == CHOOSE r \in 0..n : r * r = n

RECURSIVE Dot(_, _, _)
Dot(a, b, i) == IF i > Len(a) THEN 0 ELSE a[i] * b[i] + Dot(a, b, i + 1)

\* A JavaScript number that is either NaN or a count of hundredths
Number(hundredths) == [nan |-> FALSE, value |-> hundredths]

NaN == [nan |-> TRUE, value |-> 0]

\* client.ts:536-552: 0 for different lengths, else dot / (|a| * |b|), which
\* is 0 / 0 = NaN when either vector has norm 0
cosineSimilarity(a, b) ==
  IF Len(a) # Len(b) THEN Number(0)
  ELSE IF Sqrt(Dot(a, a, 1)) * Sqrt(Dot(b, b, 1)) = 0 THEN NaN
  ELSE Number((Dot(a, b, 1) * 100) \div (Sqrt(Dot(a, a, 1)) * Sqrt(Dot(b, b, 1))))

\* client.ts:634: (a, b) => b.score - a.score; Array.prototype.sort reads a
\* NaN returned by the comparator as +0
compareScores(a, b) ==
  IF a.score.nan \/ b.score.nan THEN 0 ELSE b.score.value - a.score.value

compareChatMessagesBySequence(a, b) == a.sequence - b.sequence

\* chat/order (unnamed/part_005:3-9)
compareChatMessagesByTimeAndSequence(a, b) ==
  IF a.createdAt # b.createdAt THEN a.createdAt - b.createdAt ELSE a.sequence - b.sequence

\* the comparator handed to Array.prototype.sort
comparefn(by, a, b) ==
  IF by = "score" THEN compareScores(a, b) ELSE compareChatMessagesByTimeAndSequence(a, b)

Reverse(s) == [i \in 1..Len(s) |-> s[Len(s) + 1 - i]]

\* The run that Array.prototype.sort (V8, array-sort.tq CountAndMakeRun) finds
\* at the start of the array: its last index
RECURSIVE ExtendRun(_, _, _, _)
ExtendRun(by, a, idx, descending) ==
  IF idx > Len(a) THEN Len(a)
  ELSE IF descending /\ comparefn(by, a[idx], a[idx - 1]) >= 0 THEN idx - 1
  ELSE IF ~descending /\ comparefn(by, a[idx], a[idx - 1]) < 0 THEN idx - 1
  ELSE ExtendRun(by, a, idx + 1, descending)

RunIsDescending(by, a) == comparefn(by, a[2], a[1]) < 0

CountRun(by, a) == ExtendRun(by, a, 3, RunIsDescending(by, a))

MakeRun(by, a) ==
  IF RunIsDescending(by, a)
  THEN Reverse(SubSeq(a, 1, CountRun(by, a))) \o SubSeq(a, CountRun(by, a) + 1, Len(a))
  ELSE a

\* array-sort.tq BinaryInsertionSort: where the pivot goes in a[left..right-1]
RECURSIVE InsertionPoint(_, _, _, _, _)
InsertionPoint(by, a, pivot, left, right) ==
  IF left >= right THEN left
  ELSE IF comparefn(by, pivot, a[left + ((right - left) \div 2)]) < 0
       THEN InsertionPoint(by, a, pivot, left, left + ((right - left) \div 2))
       ELSE InsertionPoint(by, a, pivot, left + ((right - left) \div 2) + 1, right)

InsertAt(a, start, left) ==
  SubSeq(a, 1, left - 1) \o <<a[start]>> \o SubSeq(a, left, start - 1) \o SubSeq(a, start + 1, Len(a))

RECURSIVE BinaryInsertionSort(_, _, _)
BinaryInsertionSort(by, a, start) ==
  IF start > Len(a) THEN a
  ELSE BinaryInsertionSort(by, InsertAt(a, start, InsertionPoint(by, a, a[start], 1, start)), start + 1)

\* Array.prototype.sort as V8 sorts an array shorter than 32
ArraySort(by, a) ==
  IF Len(a) < 2 THEN a ELSE BinaryInsertionSort(by, MakeRun(by, a), CountRun(by, a) + 1)

\* client.ts:634: scores.sort(...)
sortScores(a) == ArraySort("score", a)

\* client.ts:626-631
RECURSIVE Scores(_, _, _)
Scores(vectors, queryVector, i) ==
  IF i > Len(vectors) THEN <<>>
  ELSE <<[chunkId |-> vectors[i].chunkId, score |-> cosineSimilarity(queryVector, vectors[i].vector)]>>
         \o Scores(vectors, queryVector, i + 1)

\* client.ts:645-661: the chunks the join with repos finds
HasDetails(store, chunkId) ==
  chunkId \in DOMAIN store.chunks /\ store.chunks[chunkId] \in store.repos

\* client.ts:684-696
RECURSIVE Hydrate(_, _)
Hydrate(store, topChunks) ==
  IF topChunks = <<>> THEN <<>>
  ELSE (IF HasDetails(store, Head(topChunks).chunkId)
        THEN <<[chunkId |-> Head(topChunks).chunkId, score |-> Head(topChunks).score,
                repoId |-> store.chunks[Head(topChunks).chunkId]]>>
        ELSE <<>>) \o Hydrate(store, Tail(topChunks))

\* client.ts:618-697
findSimilarChunks(store, queryVector, limit) ==
  IF Len(store.rows) = 0 THEN <<>>
  ELSE Hydrate(store, slice(sortScores(Scores(store.rows, queryVector, 1)), 0, limit))

\* The stores of at most MaxRows embeddings: foreign keys are on, so every
\* embedding has its chunk and every chunk its repository
StoreOf(v) == [repos |-> IF Len(v) = 0 THEN {} ELSE {1}, chunks |-> [c \in 1..Len(v) |-> 1], rows |-> [i \in 1..Len(v) |-> [chunkId |-> i, vector |-> v[i]]]]

SearchStores == {StoreOf(v) : v \in UNION {[1..n -> SearchVectors] : n \in 0..MaxRows}}

SearchLimits == 0..MaxRows

NotSearched == [done |-> FALSE, items |-> <<>>]

InitSearch ==
  /\ searchStore \in SearchStores
  /\ searchArgs \in [queryVector : QueryVectors, limit : SearchLimits]
  /\ searchResults = NotSearched

SearchIdle ==
  /\ searchStore = <<>>
  /\ searchArgs = <<>>
  /\ searchResults = NotSearched

FindSimilar ==
  /\ ~searchResults.done
  /\ searchResults' = [done |-> TRUE, items |-> findSimilarChunks(searchStore, searchArgs.queryVector, searchArgs.limit)]
  /\ UNCHANGED <<searchStore, searchArgs, checksumVars, lastDbCall, chunkVars, pipelineVars, orderVars, vectorVars, cycleVars, embedderVars, generationVars, readmeVars, splitVars>>
  /\ HelperFrame

NextSearch == FindSimilar

\* ------------------------------------------------------------------------
\* Calls with input that is checked first (client.ts:1327-1408)
\* ------------------------------------------------------------------------
\* the last upsertEmbeddings or upsertIndexMeta call: the dimension and the
\* creation time of each of its records, its key, and whether it threw on
\* them; turn tells one call from the next
DbCall(op, numbers, key, rejected, turn) == [op |-> op, numbers |-> numbers, key |-> key, rejected |-> rejected, turn |-> turn]

NoDbCall == DbCall("none", {}, "", FALSE, 0)

NumbersOf(batch) == {<<r.dimension, r.createdAt>> : r \in batch}

NoDbCallYet == lastDbCall = NoDbCall

\* the records handed to upsertEmbeddings, each with its dimension and its
\* creation time, 0 standing for a value that is not a positive number
CheckedRecords == [id : EmbeddingIds, chunkId : NewChunkIds, vector : {1}, dimension : {0, 1}, createdAt : {0, 1}]

CheckedBatches == {batch \in SUBSET CheckedRecords : batch # {} /\ \A r1, r2 \in batch : r1.id = r2.id => r1 = r2}

IsPositiveNumber(n) == n > 0

InvalidRecordDimensionOnly(r) == ~IsPositiveNumber(r.dimension)

\* client.ts:1336-1342
InvalidRecord(r) == ~IsPositiveNumber(r.dimension) \/ ~IsPositiveNumber(r.createdAt)

\* client.ts:1344-1349
NormalizedRecords(batch) == {[id |-> r.id, chunkId |-> r.chunkId, vector |-> r.vector] : r \in batch}

DbUntouched ==
  /\ CacheUnchanged
  /\ CheckpointUnchanged
  /\ UNCHANGED <<db, dbCalls, localStorageBytes, writtenSinceExport, exportIsCurrent>>

CheckedFrame == UNCHANGED <<everyEmbeddings, everyMs, opfsFile, storageMode, now, poolVars, syncVars, runVars, chatVars, checksumVars, searchVars, chunkVars, pipelineVars, orderVars, vectorVars, cycleVars, embedderVars, generationVars, readmeVars, splitVars>>

\* client.ts:1327-1384 with the check of the records (1328-1350) in front
UpsertEmbeddingRecords(k) ==
  /\ FreeDbSlot(k)
  /\ \E batch \in CheckedBatches :
       IF \E r \in batch : InvalidRecord(r)
       THEN /\ DbUntouched
            /\ lastDbCall' = DbCall("upsertEmbeddings", NumbersOf(batch), "", TRUE, 1 - lastDbCall.turn)
       ELSE /\ UpsertBatch(k, NormalizedRecords(batch), upsertEmbeddingsWrite(db, NormalizedRecords(batch), FALSE))
            /\ lastDbCall' = DbCall("upsertEmbeddings", NumbersOf(batch), "", FALSE, 1 - lastDbCall.turn)
  /\ CheckedFrame

IndexMetaKeys == {"db_created_at", " ", ""}

\* client.ts:1386-1408
UpsertIndexMeta(k) ==
  /\ FreeDbSlot(k)
  /\ \E key \in IndexMetaKeys :
       IF TRIM(key) = ""
       THEN /\ DbUntouched
            /\ lastDbCall' = DbCall("upsertIndexMeta", {}, key, TRUE, 1 - lastDbCall.turn)
       ELSE /\ db' = [db EXCEPT !.indexMeta = @ \cup {TRIM(key)}]
            /\ persist(k, [db EXCEPT !.indexMeta = @ \cup {TRIM(key)}], "return")
            /\ CacheUnchanged
            /\ CheckpointUnchanged
            /\ lastDbCall' = DbCall("upsertIndexMeta", {}, key, FALSE, 1 - lastDbCall.turn)
  /\ CheckedFrame

\* client.ts:1544-1617: a message of session "s1", or one without an id or
\* without a session id
AddCheckedMessage ==
  /\ chatOpened
  /\ \E id \in {"m1", " "}, sessionId \in {"s1", " "} :
       ChatWritten("addChatMessage", TRIM(id), TRIM(sessionId), FALSE,
                   addChatMessage(chat, id, sessionId, "user", 1, 2, "none", FailAt("none")))

\* the calls are made one after the other, each awaited
NextChecked ==
  \/ UpsertEmbeddingRecords(1)
  \/ UpsertIndexMeta(1)
  \/ OpfsWriteSettles(1)
  \/ Open
  \/ AddCheckedMessage

\* ------------------------------------------------------------------------
\* upsertEmbeddings on a database whose chunks come and go
\* (client.ts:1327-1384, UsagePage.tsx:598, 780-861)
\* ------------------------------------------------------------------------
\* the bytes of an earlier session, written by this version or by one whose
\* embeddings table fails statements with "datatype mismatch"
HealDbs == {[d EXCEPT !.legacy = legacy] : d \in StoredDbs, legacy \in BOOLEAN}

\* the records of one call: embeddings of chunks that were selected for
\* embedding, some of which may have been deleted by a sync since
HealRecords == [id : EmbeddingIds, chunkId : ChunkIds, vector : {2}]

HealBatches == {batch \in SUBSET HealRecords : batch # {} /\ \A r1, r2 \in batch : r1.id = r2.id => r1 = r2}

IdsOf(batch) == {<<r.id, r.chunkId>> : r \in batch}

InitHeal ==
  /\ db \in HealDbs
  /\ storageMode \in {"opfs", "local-storage"}
  /\ opfsFile = IF storageMode = "opfs" THEN export(db) ELSE NoBytes
  /\ localStorageBytes = IF storageMode = "opfs" THEN NoBytes ELSE export(db)
  /\ vectorIndexCache = NoCache
  /\ vectorIndexCacheCount = NoCacheCount
  /\ \E every \in EveryEmbeddingsOptions, ms \in EveryMsOptions :
       /\ everyEmbeddings = normalizePositiveInt(every, DEFAULT_EMBEDDING_CHECKPOINT_EVERY_EMBEDDINGS)
       /\ everyMs = normalizePositiveInt(ms, DEFAULT_EMBEDDING_CHECKPOINT_EVERY_MS)
  /\ pendingEmbeddingsSinceCheckpoint = 0
  /\ pendingEmbeddingsStartedAt = 0
  /\ lastEmbeddingCheckpointAt = NoCheckpointYet
  /\ flushed = NotReturned
  /\ now = 1
  /\ dbCalls = [k \in DbCallIds |-> IdleDbCall]
  /\ exportIsCurrent = TRUE
  /\ writtenSinceExport = 0

\* client.ts:1327-1384: the call with what it was given and how it ended;
\* key "recreated" when the embeddings table was dropped to heal (1366)
UpsertEmbeddingBatch(k) ==
  /\ FreeDbSlot(k)
  /\ \E batch \in HealBatches, raises \in BOOLEAN :
       /\ raises => db.legacy
       /\ LET out == upsertEmbeddingsWrite(db, batch, raises) IN
          /\ UpsertBatch(k, batch, out)
          /\ lastDbCall' = DbCall("upsertEmbeddings", IdsOf(batch),
                                  IF raises THEN "recreated" ELSE "", out.threw, 1 - lastDbCall.turn)
  /\ CheckedFrame

NextHeal ==
  \/ UpsertEmbeddingBatch(1)
  \/ DeleteChunksByRepoIds(1)
  \/ OpfsWriteSettles(1)

\* ------------------------------------------------------------------------
\* Chunking (src/chunking/chunker.ts, UsagePage.tsx:598-611)
\* ------------------------------------------------------------------------
SHORT_DOC_CHUNK_SIZE == 900
MEDIUM_DOC_CHUNK_SIZE == 760
LONG_DOC_CHUNK_SIZE == 640
SHORT_DOC_OVERLAP == 140
MEDIUM_DOC_OVERLAP == 110
LONG_DOC_OVERLAP == 90
MAX_README_LENGTH == 100000

MaxChunkClock == 3

\* A text is known by its length and a chunk text by the characters
\* [from, to) it is cut from. A repository comes with the length of its
\* metadata header (chunker.ts:62-80) and of its README after normalizeText.
HeaderLength == 20

ReadmeLengths == {0, 1, 878, 879, 2979, 14979, 100001}

ChunkedRepos == [id : {1, 11}, hasReadme : BOOLEAN, readmeLength : ReadmeLengths]

\* chunker.ts:84-86
makeChunkId(repoId, index) == ToString(repoId) \o ":" \o ToString(index)

\* chunker.ts:88-98
resolveChunkConfig(textLength) ==
  IF textLength <= 3000 THEN [size |-> SHORT_DOC_CHUNK_SIZE, overlap |-> SHORT_DOC_OVERLAP]
  ELSE IF textLength <= 15000 THEN [size |-> MEDIUM_DOC_CHUNK_SIZE, overlap |-> MEDIUM_DOC_OVERLAP]
  ELSE [size |-> LONG_DOC_CHUNK_SIZE, overlap |-> LONG_DOC_OVERLAP]

\* chunker.ts:114-120: the loop pushes the window starting at 0, step,
\* 2 * step, ... for as long as the start is inside the text, step being
\* size - overlap
Windows(length, size, overlap) ==
  [i \in 1..((length + (size - overlap) - 1) \div (size - overlap)) |->
     [from |-> (i - 1) * (size - overlap), to |-> Min((i - 1) * (size - overlap) + size, length)]]

\* chunker.ts:105-123
splitIntoChunks(length, size, overlap) ==
  IF length = 0 THEN <<[from |-> 0, to |-> 0]>> ELSE Windows(length, size, overlap)

\* chunker.ts:132-140
CombinedLength(repo) ==
  IF repo.hasReadme /\ repo.readmeLength > 0
  THEN HeaderLength + 2 + Min(repo.readmeLength, MAX_README_LENGTH)
  ELSE HeaderLength

ChunkWindows(repo) == splitIntoChunks(CombinedLength(repo), resolveChunkConfig(CombinedLength(repo)).size, resolveChunkConfig(CombinedLength(repo)).overlap)

ChunkRecord(repo, windows, index, t) == [id |-> makeChunkId(repo.id, index), repoId |-> repo.id, chunkId |-> makeChunkId(repo.id, index), text |-> windows[index + 1], source |-> IF repo.hasReadme THEN "metadata+readme" ELSE "metadata", createdAt |-> t]

chunkRepoTimed(repo, t) == {[ChunkRecord(repo, ChunkWindows(repo), index, t) EXCEPT !.id = makeChunkId(repo.id, index + t)] : index \in 0..(Len(ChunkWindows(repo)) - 1)}

\* chunker.ts:129-157, with t for Date.now()
chunkRepo(repo, t) == {ChunkRecord(repo, ChunkWindows(repo), index, t) : index \in 0..(Len(ChunkWindows(repo)) - 1)}

\* client.ts:1266-1301: INSERT ... ON CONFLICT(id) DO UPDATE
upsertChunks(rows, chunks) == {row \in rows : \A chunk \in chunks : chunk.id # row.id} \cup chunks

\* client.ts:1315-1325
deleteChunksByRepoIds(rows, repoIds) == {row \in rows : row.repoId \notin repoIds}

NotChunked == [id |-> 0, hasReadme |-> FALSE, readmeLength |-> 0]

InitChunks ==
  /\ chunkRows = {}
  /\ chunkedAs = [id \in {1, 11} |-> NotChunked]
  /\ chunkClock = 1
  /\ lastChunkCall = "none"

ChunksIdle ==
  /\ chunkRows = {}
  /\ chunkedAs = <<>>
  /\ chunkClock = 0
  /\ lastChunkCall = "none"

ChunkFrame == UNCHANGED <<checksumVars, searchVars, lastDbCall, pipelineVars, orderVars, vectorVars, cycleVars, embedderVars, generationVars, readmeVars, splitVars>> /\ HelperFrame

\* UsagePage.tsx:598-611: the chunks of a repository that changed are
\* deleted and the repository is chunked anew
SyncChanged ==
  /\ \E repo \in ChunkedRepos :
       /\ chunkedAs[repo.id] # repo
       /\ chunkRows' = upsertChunks(deleteChunksByRepoIds(chunkRows, {repo.id}), chunkRepo(repo, chunkClock))
       /\ chunkedAs' = [chunkedAs EXCEPT ![repo.id] = repo]
  /\ lastChunkCall' = "sync"
  /\ UNCHANGED chunkClock
  /\ ChunkFrame

\* chunkRepos and upsertChunks on a repository as it was chunked before
RechunkUnchanged ==
  /\ \E repo \in ChunkedRepos :
       /\ chunkedAs[repo.id] = repo
       /\ chunkRows' = upsertChunks(chunkRows, chunkRepo(repo, chunkClock))
  /\ lastChunkCall' = "rechunk"
  /\ UNCHANGED <<chunkedAs, chunkClock>>
  /\ ChunkFrame

ChunkClockTick ==
  /\ chunkClock < MaxChunkClock
  /\ chunkClock' = chunkClock + 1
  /\ UNCHANGED <<chunkRows, chunkedAs, lastChunkCall>>
  /\ ChunkFrame

NextChunks == SyncChanged \/ RechunkUnchanged \/ ChunkClockTick

\* ------------------------------------------------------------------------
\* Backend selection (embeddings/backendSelection, unnamed/part_004:15-81)
\* ------------------------------------------------------------------------
\* what navigator is like where the worker runs
NavigatorLikes == {"undefined", "no gpu", "requestAdapter not a function", "requestAdapter throws", "adapter null", "adapter not an object", "requestDevice throws", "no requestDevice", "supported"}

InitErrors == {"no available backend found", "Failed to fetch"}

ProbeResult(ok, reason) == [threw |-> FALSE, ok |-> ok, reason |-> reason]

\* backendSelection: probeWebGpuSupport
probeWebGpuSupport(navigatorLike) ==
  CASE navigatorLike \in {"undefined", "no gpu", "requestAdapter not a function"} -> ProbeResult(FALSE, "navigator.gpu unavailable")
    [] navigatorLike = "requestAdapter throws" -> ProbeResult(FALSE, "webgpu probe error: adapter")
    [] navigatorLike \in {"adapter null", "adapter not an object"} -> ProbeResult(FALSE, "no WebGPU adapter available")
    [] navigatorLike = "requestDevice throws" -> ProbeResult(FALSE, "webgpu probe error: device")
    [] OTHER -> ProbeResult(TRUE, Null)

resolvePreferredBackendBlind(preferred, probeResult) == [backend |-> preferred, fallbackReason |-> Null]

\* backendSelection: resolvePreferredBackend
resolvePreferredBackend(preferred, probeResult) ==
  IF preferred = "wasm" THEN [backend |-> "wasm", fallbackReason |-> Null]
  ELSE IF probeResult.ok THEN [backend |-> "webgpu", fallbackReason |-> Null]
  ELSE [backend |-> "wasm", fallbackReason |-> probeResult.reason]

\* a getInstance call: where it stands, what it was asked for, the navigator
\* it probed, what the initialisation of webgpu came to, and how it ended
GetInstanceCall(pc, preferred, probed, webgpuInit, outcome) == [pc |-> pc, preferred |-> preferred, probed |-> probed, webgpuInit |-> webgpuInit, outcome |-> outcome]

NoGetInstanceCall == GetInstanceCall("idle", Null, "not probed", "not tried", "none")

\* part_004:113-131: what the worker posts when a request is done
Message(status, selected, reason) == [status |-> status, selectedBackend |-> selected, fallbackReason |-> reason]

NoMessage == Message("none", Null, Null)

\* part_004:17-20: the static fields of a worker that has just started
InitPipeline ==
  /\ preferredBackend = Null
  /\ selectedBackend = Null
  /\ fallbackReason = Null
  /\ instance = Null
  /\ getInstanceCall = NoGetInstanceCall
  /\ posted = NoMessage

NoPipeline == InitPipeline

PipelineFrame == UNCHANGED <<checksumVars, searchVars, lastDbCall, chunkVars, orderVars, vectorVars, cycleVars, embedderVars, generationVars, readmeVars, splitVars>> /\ HelperFrame

\* part_004:34-48: a pipeline of the same preference is handed back, as the
\* call before this one selected it; else the fields are reset and the loader starts, with wasm at once
\* or with the probe
GetInstance ==
  /\ getInstanceCall.pc = "idle"
  /\ \E preferred \in {"wasm", "webgpu"} :
       IF instance # Null /\ preferredBackend = preferred
       THEN /\ getInstanceCall' = [getInstanceCall EXCEPT !.pc = "settled", !.outcome = "returned"]
            /\ UNCHANGED <<preferredBackend, selectedBackend, fallbackReason, instance>>
       ELSE /\ preferredBackend' = preferred
            /\ fallbackReason' = Null
            /\ instance' = "loading"
            /\ IF preferred = "wasm"
               THEN /\ selectedBackend' = "wasm"
                    /\ getInstanceCall' = GetInstanceCall("init wasm", preferred, "not probed", "not tried", "none")
               ELSE /\ selectedBackend' = Null
                    /\ getInstanceCall' = GetInstanceCall("probing", preferred, "not probed", "not tried", "none")
  /\ UNCHANGED posted
  /\ PipelineFrame

\* part_004:50-59: the probe has settled
ProbeSettles ==
  /\ getInstanceCall.pc = "probing"
  /\ \E navigatorLike \in NavigatorLikes :
       /\ ~probeWebGpuSupport(navigatorLike).threw
       /\ IF resolvePreferredBackend(getInstanceCall.preferred, probeWebGpuSupport(navigatorLike)).backend = "wasm"
          THEN /\ selectedBackend' = "wasm"
               /\ fallbackReason' = resolvePreferredBackend(getInstanceCall.preferred, probeWebGpuSupport(navigatorLike)).fallbackReason
               /\ getInstanceCall' = [getInstanceCall EXCEPT !.pc = "init wasm", !.probed = navigatorLike]
          ELSE /\ selectedBackend' = "webgpu"
               /\ UNCHANGED fallbackReason
               /\ getInstanceCall' = [getInstanceCall EXCEPT !.pc = "init webgpu", !.probed = navigatorLike]
  /\ UNCHANGED <<preferredBackend, instance, posted>>
  /\ PipelineFrame

\* part_004:61-68: the webgpu pipeline is there, or wasm is tried instead
InitWebgpuSettles ==
  /\ getInstanceCall.pc = "init webgpu"
  /\ \/ /\ instance' = "ready"
        /\ getInstanceCall' = [getInstanceCall EXCEPT !.pc = "settled", !.webgpuInit = "succeeded", !.outcome = "returned"]
        /\ UNCHANGED <<selectedBackend, fallbackReason>>
     \/ \E error \in InitErrors :
          /\ selectedBackend' = "wasm"
          /\ fallbackReason' = "webgpu init failed: " \o error
          /\ getInstanceCall' = [getInstanceCall EXCEPT !.pc = "init wasm", !.webgpuInit = "failed"]
          /\ UNCHANGED instance
  /\ UNCHANGED <<preferredBackend, posted>>
  /\ PipelineFrame

\* part_004:42-45, 56-58, 66, 71-81: the wasm pipeline is there, or the
\* loader is rejected
InitWasmSettles ==
  /\ getInstanceCall.pc = "init wasm"
  /\ \/ /\ instance' = "ready"
        /\ getInstanceCall' = [getInstanceCall EXCEPT !.pc = "settled", !.outcome = "returned"]
        /\ UNCHANGED <<selectedBackend, fallbackReason>>
     \/ \E error \in InitErrors :
          /\ instance' = Null
          /\ selectedBackend' = Null
          /\ fallbackReason' = IF fallbackReason = Null THEN error ELSE fallbackReason
          /\ getInstanceCall' = [getInstanceCall EXCEPT !.pc = "settled", !.outcome = "threw"]
  /\ UNCHANGED <<preferredBackend, posted>>
  /\ PipelineFrame

\* part_004:83-133: the request that asked for the pipeline is answered
\* with the backend and the reason as they stand
PostMessage ==
  /\ getInstanceCall.pc = "settled"
  /\ posted' = Message(IF getInstanceCall.outcome = "returned" THEN "complete" ELSE "error", selectedBackend, fallbackReason)
  /\ getInstanceCall' = [getInstanceCall EXCEPT !.pc = "idle"]
  /\ UNCHANGED <<preferredBackend, selectedBackend, fallbackReason, instance>>
  /\ PipelineFrame

NextPipeline == GetInstance \/ ProbeSettles \/ InitWebgpuSettles \/ InitWasmSettles \/ PostMessage

\* ------------------------------------------------------------------------
\* Order of chat messages (client.ts:1491-1520, unnamed/part_005)
\* ------------------------------------------------------------------------
MaxMessages == 3

TimedMessages == [id : {"m1", "m2", "m3"}, sessionId : {"s1", "s2"}, sequence : {1, 2}, createdAt : {1, 2}]

\* the rows of chat_messages in the order of their rowids; id is the
\* primary key
MessageStores == {rows \in UNION {[1..n -> TimedMessages] : n \in 0..MaxMessages} : \A i, j \in DOMAIN rows : rows[i].id = rows[j].id => i = j}

\* ORDER BY created_at ASC, sequence ASC
ComesBefore(a, b) == a.createdAt < b.createdAt \/ (a.createdAt = b.createdAt /\ a.sequence < b.sequence)

Front(rows) == SubSeq(rows, 1, Len(rows) - 1)

RECURSIVE InsertOrdered(_, _)
InsertOrdered(row, ordered) ==
  IF ordered = <<>> THEN <<row>>
  ELSE IF ComesBefore(row, ordered[Len(ordered)]) THEN InsertOrdered(row, Front(ordered)) \o <<ordered[Len(ordered)]>>
  ELSE ordered \o <<row>>

\* the rows of a session as the index idx_chat_messages_order
\* (client.ts:223) holds them: by created_at, then sequence, then rowid
RECURSIVE OrderBy(_)
OrderBy(rows) == IF rows = <<>> THEN <<>> ELSE InsertOrdered(rows[Len(rows)], OrderBy(Front(rows)))

RowsOfSession(rows, sessionId) == SelectSeq(rows, LAMBDA row : row.sessionId = sessionId)

\* client.ts:1491-1520
listChatMessages(rows, sessionId) ==
  IF TRIM(sessionId) = "" THEN <<>> ELSE OrderBy(RowsOfSession(rows, TRIM(sessionId)))

sortChatMessagesInPlace(messages) == [messages |-> ArraySort("time and sequence", messages), result |-> ArraySort("time and sequence", messages)]

\* unnamed/part_005:11-13: the array handed in as the call leaves it, and
\* the sorted copy
sortChatMessages(messages) == [messages |-> messages, result |-> ArraySort("time and sequence", messages)]

NotListed == [done |-> FALSE, sessionId |-> "", items |-> <<>>]

NotSorted == [done |-> FALSE, input |-> <<>>, messages |-> <<>>, result |-> <<>>]

InitOrders ==
  /\ messageStore \in MessageStores
  /\ listedMessages = NotListed
  /\ sortedMessages = NotSorted

OrdersIdle ==
  /\ messageStore = <<>>
  /\ listedMessages = NotListed
  /\ sortedMessages = NotSorted

OrderFrame == UNCHANGED <<checksumVars, searchVars, lastDbCall, chunkVars, pipelineVars, vectorVars, cycleVars, embedderVars, generationVars, readmeVars, splitVars>> /\ HelperFrame

ListChatMessages ==
  /\ \E sessionId \in {"s1", "s2", " "} :
       listedMessages' = [done |-> TRUE, sessionId |-> sessionId, items |-> listChatMessages(messageStore, sessionId)]
  /\ UNCHANGED <<messageStore, sortedMessages>>
  /\ OrderFrame

\* UsagePage.tsx:1207, 1244: the messages of a session in the order in which
\* they were added are sorted
SortChatMessages ==
  /\ \E sessionId \in {"s1", "s2"} :
       sortedMessages' = [done |-> TRUE, input |-> RowsOfSession(messageStore, sessionId),
                          messages |-> sortChatMessages(RowsOfSession(messageStore, sessionId)).messages,
                          result |-> sortChatMessages(RowsOfSession(messageStore, sessionId)).result]
  /\ UNCHANGED <<messageStore, listedMessages>>
  /\ OrderFrame

NextOrders == ListChatMessages \/ SortChatMessages

\* ------------------------------------------------------------------------
\* Stored vectors (unnamed/part_002, UsagePage.tsx:744-857)
\* ------------------------------------------------------------------------
MaxBatchChunks == 2

BYTES_PER_ELEMENT == 4

\* one unit, in the hundredths in which the components are counted
One == 100

\* the vectors a worker hands back, of norm 1, 5, 10 and 0
EmbeddedVectors == {<<60, 80>>, <<300, 400>>, <<500, 0>>, <<-300, 400>>, <<0, 0>>, <<1000, 0, 0, 0>>}

\* the chunks in the order of their creation, with their texts
VectorChunkIds == 1..3

TextOf(chunkId) == IF chunkId = 2 THEN "b" ELSE "a"

SumSquares(vec) == Dot(vec, vec, 1)

l2NormalizeNot(vec) == vec

\* unnamed/part_002:1-17
l2Normalize(vec) ==
  LET norm == Sqrt(SumSquares(vec)) IN
    IF norm = 0 THEN vec ELSE [i \in DOMAIN vec |-> (vec[i] * One) \div norm]

\* the four bytes of a component, the lowest first
BytesOf(n) == <<n % 256, (n \div 256) % 256, (n \div 65536) % 256, IF n < 0 THEN 255 ELSE 0>>

ComponentOf(bytes) == bytes[1] + 256 * bytes[2] + 65536 * bytes[3] + 16777216 * (IF bytes[4] >= 128 THEN bytes[4] - 256 ELSE bytes[4])

\* unnamed/part_002:19-24
float32ToBlob(vec) ==
  LET normalized == l2Normalize(vec) IN
    [k \in 1..(Len(normalized) * BYTES_PER_ELEMENT) |-> BytesOf(normalized[((k - 1) \div BYTES_PER_ELEMENT) + 1])[((k - 1) % BYTES_PER_ELEMENT) + 1]]

\* unnamed/part_002:26-28
blobToFloat32(blob) ==
  [i \in 1..(Len(blob) \div BYTES_PER_ELEMENT) |-> ComponentOf(SubSeq(blob, (i - 1) * BYTES_PER_ELEMENT + 1, i * BYTES_PER_ELEMENT))]

NoStoredVector == [stored |-> FALSE, dimension |-> 0, vectorBlob |-> <<>>]

\* UsagePage.tsx:799-806, 848-855
EmbeddingRecordOf(vector) == [stored |-> TRUE, dimension |-> Len(vector), vectorBlob |-> float32ToBlob(vector)]

\* client.ts:898-907: the first chunks without an embedding
RECURSIVE FirstWithout(_, _, _)
FirstWithout(rows, chunkId, limit) ==
  IF chunkId > 3 \/ limit = 0 THEN {}
  ELSE IF rows[chunkId].stored THEN FirstWithout(rows, chunkId + 1, limit)
  ELSE {chunkId} \cup FirstWithout(rows, chunkId + 1, limit - 1)

NoCachedVector == <<>>

InitVectors ==
  /\ embeddingRows = [chunkId \in VectorChunkIds |-> NoStoredVector]
  /\ embeddedFrom = [chunkId \in VectorChunkIds |-> NoCachedVector]
  /\ localEmbeddingCache = [text \in {"a", "b"} |-> NoCachedVector]

VectorsIdle == InitVectors

VectorFrame == UNCHANGED <<checksumVars, searchVars, lastDbCall, chunkVars, pipelineVars, orderVars, cycleVars, embedderVars, generationVars, readmeVars, splitVars>> /\ HelperFrame

\* UsagePage.tsx:744: a generation run starts with an empty cache
StartGeneration ==
  /\ localEmbeddingCache' = [text \in {"a", "b"} |-> NoCachedVector]
  /\ UNCHANGED <<embeddingRows, embeddedFrom>>
  /\ VectorFrame

\* UsagePage.tsx:780-857: one round of the loop: the chunks without an
\* embedding, the vectors of the cache for the texts it holds and of the pool
\* for the others, and upsertEmbeddings of all of them
EmbedNextBatch ==
  LET chunks == FirstWithout(embeddingRows, 1, MaxBatchChunks)
      uncached == {chunkId \in chunks : localEmbeddingCache[TextOf(chunkId)] = NoCachedVector}
  IN
    /\ chunks # {}
    /\ \E embedded \in [uncached -> EmbeddedVectors] :
         LET vectorOf(chunkId) == IF chunkId \in uncached THEN embedded[chunkId] ELSE localEmbeddingCache[TextOf(chunkId)] IN
           /\ localEmbeddingCache' = [text \in {"a", "b"} |->
                IF \E chunkId \in uncached : TextOf(chunkId) = text
                THEN embedded[CHOOSE chunkId \in uncached : TextOf(chunkId) = text /\ \A other \in uncached : TextOf(other) = text => other <= chunkId]
                ELSE localEmbeddingCache[text]]
           /\ embeddingRows' = [chunkId \in VectorChunkIds |-> IF chunkId \in chunks THEN EmbeddingRecordOf(vectorOf(chunkId)) ELSE embeddingRows[chunkId]]
           /\ embeddedFrom' = [chunkId \in VectorChunkIds |-> IF chunkId \in chunks THEN vectorOf(chunkId) ELSE embeddedFrom[chunkId]]
    /\ VectorFrame

\* client.ts:1315-1325: the chunks of a repository are deleted, and their
\* embeddings with them
DeleteChunkEmbeddings ==
  /\ \E chunkIds \in (SUBSET VectorChunkIds) \ {{}} :
       /\ \E chunkId \in chunkIds : embeddingRows[chunkId].stored
       /\ embeddingRows' = [chunkId \in VectorChunkIds |-> IF chunkId \in chunkIds THEN NoStoredVector ELSE embeddingRows[chunkId]]
       /\ embeddedFrom' = [chunkId \in VectorChunkIds |-> IF chunkId \in chunkIds THEN NoCachedVector ELSE embeddedFrom[chunkId]]
  /\ UNCHANGED localEmbeddingCache
  /\ VectorFrame

NextVectors == StartGeneration \/ EmbedNextBatch \/ DeleteChunkEmbeddings

\* ------------------------------------------------------------------------
\* Sync cycles (UsagePage.tsx:466-640, github client fetchReadmes)
\* ------------------------------------------------------------------------
CycleRepoIds == {1, 2}

\* the metadata GitHub reports for a repository at different times
CycleFields ==
  {[BaseFields EXCEPT !.description = ""],
   [BaseFields EXCEPT !.description = Null],
   [BaseFields EXCEPT !.description = "", !.updatedAt = "2026-02-01"]}

\* what the README request of a repository comes back with: no README
\* (404 or a failed request), or a text
ReadmeTexts == {Null, "# readme"}

\* part_009:3-10, a digest that tells its inputs apart
sha256Hex(input) == "sha256(" \o input \o ")"

\* client.test.ts:468-571: the checksum of a README record
readmeChecksum(repo, readmeText) == sha256Hex(canonicalChecksumInput(repo, sha256Hex(OrEmpty(readmeText))))

\* UsagePage.tsx:245-262, 582-585: the record of a candidate with its README
RepoRecord(repo, readmeText) ==
  [id |-> repo.id, fullName |-> repo.full_name, description |-> repo.description,
   language |-> repo.language, updatedAt |-> repo.updated_at, topics |-> TopicsOrEmpty(repo),
   checksum |-> readmeChecksum(repo, readmeText), readmeText |-> readmeText]

\* the sync state of a stored record (client.ts:855-875)
SyncStateOf(record) ==
  [id |-> record.id, fullName |-> record.fullName, description |-> record.description,
   language |-> record.language, updatedAt |-> record.updatedAt, topics |-> record.topics,
   checksum |-> record.checksum]

HasRepo(repos, id) == \E i \in DOMAIN repos : repos[i].id = id

RepoWithId(repos, id) == repos[CHOOSE i \in DOMAIN repos : repos[i].id = id]

RECURSIVE InIdOrder(_, _, _)
InIdOrder(locals, records, id) ==
  IF id \notin CycleRepoIds THEN <<>>
  ELSE (IF HasRepo(records, id) THEN <<SyncStateOf(RepoWithId(records, id))>>
        ELSE IF HasRepo(locals, id) THEN <<RepoWithId(locals, id)>>
        ELSE <<>>) \o InIdOrder(locals, records, id + 1)

\* client.ts:768-820: INSERT ... ON CONFLICT(id) DO UPDATE
upsertRepos(locals, records) == InIdOrder(locals, records, 1)

\* client.ts:822-853: the repositories go, and their chunks with them
deleteReposByIds(locals, ids) == SelectSeq(locals, LAMBDA repo : \A i \in DOMAIN ids : ids[i] # repo.id)

\* UsagePage.tsx:575-594: the candidates that are new or whose checksum
\* differs from the stored one
changedRecords(existing, candidates, readmes) ==
  SelectSeq([i \in DOMAIN candidates |-> RepoRecord(candidates[i], readmes[candidates[i].id])],
            LAMBDA record : ~HasRepo(existing, record.id) \/ RepoWithId(existing, record.id).checksum # record.checksum)

\* chunker.ts:129-165: the number of chunks chunkRepo makes of a record whose
\* README, when there is one, is a short text
ChunkCountOf(record) ==
  Cardinality(chunkRepo([id |-> record.id, hasReadme |-> record.readmeText # Null, readmeLength |-> IF record.readmeText = Null THEN 0 ELSE 879], 1))

NoCycle == [pc |-> "idle", outcome |-> "none", existing |-> <<>>, changed |-> <<>>, remote |-> <<>>]

RemoteOf(id) == {<<>>} \cup {<<RemoteRepo(id, f, TRUE)>> : f \in CycleFields}

\* a new database and the repositories the user has starred
InitCycle ==
  /\ localRepos = <<>>
  /\ \E r1 \in RemoteOf(1), r2 \in RemoteOf(2) : remoteRepos = r1 \o r2
  /\ syncPlan = NoPlan
  /\ repoChunks = [id \in CycleRepoIds |-> 0]
  /\ cycle = NoCycle

CycleIdle ==
  /\ repoChunks = [id \in CycleRepoIds |-> 0]
  /\ cycle = NoCycle

CycleFrame == UNCHANGED <<checksumVars, searchVars, lastDbCall, chunkVars, pipelineVars, orderVars, vectorVars, poolVars, dbVars, runVars, chatVars, embedderVars, generationVars, readmeVars, splitVars>>

\* between two syncs the user stars and unstars, and metadata changes
RemoteChanges ==
  /\ cycle.pc = "idle"
  /\ \E r1 \in RemoteOf(1), r2 \in RemoteOf(2) : remoteRepos' = r1 \o r2
  /\ remoteRepos' # remoteRepos
  /\ UNCHANGED <<localRepos, syncPlan, repoChunks, cycle>>
  /\ CycleFrame

\* UsagePage.tsx:491-540: the stored states are read, the stars fetched, the
\* plan built and the removed repositories deleted
StartSync ==
  /\ cycle.pc = "idle"
  /\ LET plan == buildSyncPlan(localRepos, remoteRepos) IN
       /\ syncPlan' = plan
       /\ localRepos' = deleteReposByIds(localRepos, plan.removedRepoIds)
       /\ repoChunks' = [id \in CycleRepoIds |-> IF \E i \in DOMAIN plan.removedRepoIds : plan.removedRepoIds[i] = id THEN 0 ELSE repoChunks[id]]
       /\ cycle' = [pc |-> "fetching", outcome |-> "none", existing |-> localRepos, changed |-> <<>>, remote |-> remoteRepos]
  /\ UNCHANGED remoteRepos
  /\ CycleFrame

\* UsagePage.tsx:542-596: the READMEs of the candidates are there, the changed
\* records are put together and, when there are any, stored
ReadmesFetched ==
  /\ cycle.pc = "fetching"
  /\ \E readmes \in [CycleRepoIds -> ReadmeTexts] :
       LET candidates == SelectSeq(cycle.remote, LAMBDA repo : \E i \in DOMAIN syncPlan.candidateRepoIds : syncPlan.candidateRepoIds[i] = repo.id)
           changed == changedRecords(cycle.existing, candidates, readmes)
       IN /\ localRepos' = upsertRepos(localRepos, changed)
          /\ cycle' = IF changed = <<>>
                      THEN [cycle EXCEPT !.pc = "idle", !.outcome = "completed"]
                      ELSE [cycle EXCEPT !.pc = "reposStored", !.changed = changed]
  /\ UNCHANGED <<remoteRepos, syncPlan, repoChunks>>
  /\ CycleFrame

\* UsagePage.tsx:598
ChunksDeleted ==
  /\ cycle.pc = "reposStored"
  /\ repoChunks' = [id \in CycleRepoIds |-> IF HasRepo(cycle.changed, id) THEN 0 ELSE repoChunks[id]]
  /\ cycle' = [cycle EXCEPT !.pc = "chunksDeleted"]
  /\ UNCHANGED <<localRepos, remoteRepos, syncPlan>>
  /\ CycleFrame

\* UsagePage.tsx:610-640: the changed records are chunked, the chunks stored,
\* and the cycle comes to its end
ChunksStored ==
  /\ cycle.pc = "chunksDeleted"
  /\ repoChunks' = [id \in CycleRepoIds |-> IF HasRepo(cycle.changed, id) THEN ChunkCountOf(RepoWithId(cycle.changed, id)) ELSE repoChunks[id]]
  /\ cycle' = [cycle EXCEPT !.pc = "idle", !.outcome = "completed"]
  /\ UNCHANGED <<localRepos, remoteRepos, syncPlan>>
  /\ CycleFrame

\* UsagePage.tsx:688-700: an awaited call rejects (a request fails, the
\* database raises) or the page is closed; what was stored stays stored
CycleFails ==
  /\ cycle.pc # "idle"
  /\ cycle' = [cycle EXCEPT !.pc = "idle", !.outcome = "failed"]
  /\ UNCHANGED <<localRepos, remoteRepos, syncPlan, repoChunks>>
  /\ CycleFrame

NextCycle == RemoteChanges \/ StartSync \/ ReadmesFetched \/ ChunksDeleted \/ ChunksStored \/ CycleFails

\* UsagePage.tsx:1014-1030: "Delete local data" can be pressed at any time,
\* also while a sync or a chat writes
\* ------------------------------------------------------------------------
\* Embedder (src/embeddings/Embedder.ts)
\* ------------------------------------------------------------------------
\* crypto.randomUUID() (Embedder.ts:109): an id no earlier call was given
MaxRequests == 2

RequestIds == 1..MaxRequests

\* an id that no embedBatch call was given
UnknownId == 0

MaxTexts == 2

\* responses on their way to the Embedder at one time
MaxInFlight == 2

TextCodes == {1, 2}

\* the texts of a call, each text a number
TextLists == UNION {[1..n -> TextCodes] : n \in 0..MaxTexts}

\* worker.ts:95-120: the vector the worker computes for a text
VectorOf(text) == 10 * text

NoPromise == [state |-> "none", texts |-> <<>>, value |-> <<>>, settled |-> 0]

\* Embedder.ts:33-47: null and undefined give null, a Float32Array or an
\* array (a positive number here) its vector, anything else null
coerceFloat32Array(value) ==
  IF value = NoVector THEN NoVector ELSE IF value > 0 THEN value ELSE NoVector

Max(a, b) == IF a > b THEN a ELSE b

\* normalizedEmbeddings[i], normalizedErrors[i] (Embedder.ts:89-90)
EmbeddingAt(list, i) == IF i \in DOMAIN list THEN list[i] ELSE NoVector
ErrorAt(list, i) == IF i \in DOMAIN list THEN list[i] ELSE Null

\* Embedder.ts:84-95
ResultsOf(embeddings, errors) ==
  [i \in 1..Max(Len(embeddings), Len(errors)) |->
     [embedding |-> coerceFloat32Array(EmbeddingAt(embeddings, i)), error |-> ErrorAt(errors, i)]]

\* worker.ts:95-131: the response to a request; a complete one carries a
\* vector and no error for every text
CompleteResponse(request, backend) ==
  [id |-> request.id, status |-> "complete",
   embeddings |-> [i \in DOMAIN request.texts |-> VectorOf(request.texts[i])],
   errors |-> [i \in DOMAIN request.texts |-> Null],
   error |-> Null, selectedBackend |-> backend]

ErrorResponse(request, backend) ==
  [id |-> request.id, status |-> "error", embeddings |-> <<>>, errors |-> <<>>,
   error |-> "Embedding worker failed", selectedBackend |-> backend]

\* this.pending.get(id) === undefined
NoJob == -1

\* the job found under another id than the one of the response
getAnyJob(pending, id) == IF pending = {} THEN NoJob ELSE CHOOSE job \in pending : TRUE

\* Embedder.ts:79: this.pending.get(id)
getJob(pending, id) == IF id \in pending THEN id ELSE NoJob

InitEmbedder ==
  /\ pendingJobs = {}
  /\ promises = [id \in RequestIds |-> NoPromise]
  /\ workerInbox = {}
  /\ workerOutbox = {}
  /\ runtimeInfo = [selectedBackend |-> Null]

EmbedderIdle == InitEmbedder

EmbedderFrame == UNCHANGED <<checksumVars, searchVars, lastDbCall, chunkVars, pipelineVars, orderVars, vectorVars, cycleVars, generationVars, readmeVars, splitVars, poolVars, dbVars, syncVars, runVars, chatVars, generationVars, readmeVars, splitVars>>

\* Embedder.ts:104-114: no texts, no request; else the job is kept under a
\* new id and the request posted
EmbedBatch ==
  /\ \E id \in RequestIds, texts \in TextLists :
       /\ promises[id].state = "none"
       /\ \A other \in RequestIds : promises[other].state = "none" => id <= other
       /\ IF texts = <<>>
          THEN /\ promises' = [promises EXCEPT ![id] = [state |-> "resolved", texts |-> texts, value |-> <<>>, settled |-> 1]]
               /\ UNCHANGED <<pendingJobs, workerInbox>>
          ELSE /\ promises' = [promises EXCEPT ![id] = [state |-> "pending", texts |-> texts, value |-> <<>>, settled |-> 0]]
               /\ pendingJobs' = pendingJobs \cup {id}
               /\ workerInbox' = workerInbox \cup {[id |-> id, texts |-> texts]}
  /\ UNCHANGED <<workerOutbox, runtimeInfo>>
  /\ EmbedderFrame

\* the worker answers a request it was posted, whichever it is, and may
\* answer it again
WorkerAnswers ==
  /\ Cardinality(workerOutbox) < MaxInFlight
  /\ \E request \in workerInbox, ok \in BOOLEAN :
       workerOutbox' = workerOutbox \cup
         {IF ok THEN CompleteResponse(request, "wasm") ELSE ErrorResponse(request, Null)}
  /\ UNCHANGED <<pendingJobs, promises, workerInbox, runtimeInfo>>
  /\ EmbedderFrame

\* a response whose id no request has
StrayResponse ==
  /\ Cardinality(workerOutbox) < MaxInFlight
  /\ workerOutbox' = workerOutbox \cup
       {CompleteResponse([id |-> UnknownId, texts |-> <<1>>], "wasm")}
  /\ UNCHANGED <<pendingJobs, promises, workerInbox, runtimeInfo>>
  /\ EmbedderFrame

\* Embedder.ts:65-101: worker.onmessage on one response
OnMessage ==
  /\ \E response \in workerOutbox :
       /\ workerOutbox' = workerOutbox \ {response}
       /\ runtimeInfo' =
            [selectedBackend |-> IF response.selectedBackend \in {"webgpu", "wasm"}
                                 THEN response.selectedBackend ELSE runtimeInfo.selectedBackend]
       /\ LET job == getJob(pendingJobs, response.id) IN
          IF job # NoJob
          THEN /\ pendingJobs' = pendingJobs \ {response.id}
               /\ promises' =
                    [promises EXCEPT ![job] =
                       IF response.status = "complete"
                       THEN [@ EXCEPT !.state = IF @ = "pending" THEN "resolved" ELSE @,
                                      !.value = IF promises[job].state = "pending"
                                                THEN ResultsOf(response.embeddings, response.errors) ELSE @,
                                      !.settled = @ + 1]
                       ELSE [@ EXCEPT !.state = IF @ = "pending" THEN "rejected" ELSE @,
                                      !.value = IF promises[job].state = "pending"
                                                THEN <<response.error>> ELSE @,
                                      !.settled = @ + 1]]
          ELSE UNCHANGED <<pendingJobs, promises>>
  /\ UNCHANGED workerInbox
  /\ EmbedderFrame

NextEmbedder ==
  \/ EmbedBatch
  \/ WorkerAnswers
  \/ StrayResponse
  \/ OnMessage

\* ------------------------------------------------------------------------
\* Overlapping embedding runs (UsagePage.tsx:674, 688, 1043, 705-1011)
\* ------------------------------------------------------------------------
\* a sync started by "Fetch stars" and one started by a search each end in
\* generateEmbeddings on the same database
GenerationIds == {1, 2}

NoGeneration == [phase |-> "idle", chunks |-> <<>>, outcome |-> "none"]

InitGenerations == generations = [g \in GenerationIds |-> NoGeneration]

GenerationsIdle == InitGenerations

GenerationFrame ==
  UNCHANGED <<everyEmbeddings, everyMs, opfsFile, storageMode, now, poolVars, syncVars, runVars, chatVars,
              checksumVars, searchVars, lastDbCall, chunkVars, pipelineVars, orderVars, vectorVars,
              cycleVars, embedderVars, readmeVars, splitVars>>

\* the ids of the embeddings table that no row has
FreeEmbeddingIds(database) == {id \in EmbeddingIds : database.embeddings[id] = NoRow}

\* a record for every chunk with the id that chunk was given
RecordsOf(chunks, idOf) ==
  {[id |-> idOf[i], chunkId |-> chunks[i], vector |-> 1] : i \in DOMAIN chunks}

\* UsagePage.tsx:781-812, 942-952: the head of the loop of run g
GenerationSelects(g) ==
  /\ generations[g].phase \in {"idle", "selecting"}
  /\ LET chunks == getChunksToEmbed(db, BATCH_SIZE) IN
     IF chunks # <<>>
     THEN /\ generations' = [generations EXCEPT ![g] = [phase |-> "embedding", chunks |-> chunks, outcome |-> "none"]]
          /\ CheckpointUnchanged
          /\ UNCHANGED <<dbCalls, localStorageBytes, exportIsCurrent, writtenSinceExport>>
     ELSE /\ generations' = [generations EXCEPT ![g] = [phase |-> "idle", chunks |-> <<>>, outcome |-> "complete"]]
          /\ IF pendingEmbeddingsSinceCheckpoint <= 0
             THEN /\ NothingToFlush
                  /\ UNCHANGED <<dbCalls, localStorageBytes, exportIsCurrent, writtenSinceExport>>
             ELSE flushPendingEmbeddingCheckpoint(1, db, pendingEmbeddingsSinceCheckpoint,
                                                  pendingEmbeddingsStartedAt)
  /\ CacheUnchanged
  /\ UNCHANGED db
  /\ GenerationFrame

\* UsagePage.tsx:814-940: the pool has answered; every chunk of the batch
\* gets a record with an id of crypto.randomUUID() (804, 853), an id no
\* stored embedding has, and the records go to upsertEmbeddings; a failed
\* call ends the run in the catch block (997-1007)
GenerationStores(g) ==
  /\ generations[g].phase = "embedding"
  /\ LET chunks == generations[g].chunks IN
     \E idOf \in [DOMAIN chunks -> FreeEmbeddingIds(db)] :
       /\ \A i, j \in DOMAIN chunks : idOf[i] = idOf[j] => i = j
       /\ LET out == upsertEmbeddingsWrite(db, RecordsOf(chunks, idOf), FALSE) IN
          /\ UpsertBatch(1, RecordsOf(chunks, idOf), out)
          /\ generations' = [generations EXCEPT ![g] =
                               IF out.threw
                               THEN [phase |-> "idle", chunks |-> <<>>, outcome |-> "failed"]
                               ELSE [phase |-> "selecting", chunks |-> <<>>, outcome |-> "none"]]
  /\ GenerationFrame

NextGenerations ==
  \/ \E g \in GenerationIds : GenerationSelects(g)
  \/ \E g \in GenerationIds : GenerationStores(g)
  \/ DeleteChunksByRepoIds(1)
  \/ UpsertChunks(1)
  \/ FindSimilarChunks

\* ------------------------------------------------------------------------
\* fetchReadmes (github client, client.test.ts:431-612)
\* ------------------------------------------------------------------------
DEFAULT_README_CONCURRENCY == 6

MaxReadmeRepos == 3

\* options.concurrency === undefined
Unset == -1

ConcurrencyOptions == {Unset, 1, 2}

\* what the request for a README can come to: a payload with or without
\* content, status 404, another status that is not ok, a rate limit that
\* requestWithBackoff gets over or not, and a fetch that throws
FetchOutcomes ==
  {"content", "no content", "404", "500", "429 then content", "429 then throws", "throws"}

NoOutcomeYet == "none"

\* the repository at position index of the input
ReadmeRepo(index) == RemoteRepo(index + 1, BaseFields, TRUE)

\* client.test.ts:468-476, 493-507, 520-526, 537-551, 583-589
ReadmeRecord(repo, readmeText) ==
  [repoId |-> repo.id, readmeText |-> readmeText, checksum |-> readmeChecksum(repo, readmeText),
   missingReadme |-> readmeText = Null]

\* the record and the counters of one handled repository
Handled(repo, outcome) ==
  CASE outcome \in {"content", "429 then content"} ->
         [record |-> ReadmeRecord(repo, "# readme"), missing |-> 0, failed |-> 0]
    [] outcome \in {"no content", "404"} ->
         [record |-> ReadmeRecord(repo, Null), missing |-> 1, failed |-> 0]
    [] OTHER ->
         [record |-> ReadmeRecord(repo, Null), missing |-> 0, failed |-> 1]

\* a worker for every repository, whatever the concurrency
workerCountAll(concurrency, total) == total

\* client.test.ts:599: Math.min(concurrency, repos.length)
workerCount(concurrency, total) == Min(concurrency, total)

NoReadmes ==
  [state |-> "idle", total |-> 0, concurrency |-> 0, cursor |-> 0, workers |-> <<>>,
   records |-> <<>>, missingCount |-> 0, failedCount |-> 0, completed |-> 0,
   aborted |-> FALSE, fetches |-> <<>>, outcomes |-> <<>>]

InitReadmes == readmeCall = NoReadmes

ReadmesIdle == InitReadmes

ReadmeFrame == UNCHANGED <<checksumVars, searchVars, lastDbCall, chunkVars, pipelineVars, orderVars, vectorVars, cycleVars, embedderVars, generationVars, splitVars, poolVars, dbVars, syncVars, runVars, chatVars, splitVars>>

\* client.test.ts:454-461: worker w reads the cursor and, with a repository
\* left, takes it and starts its request; else its loop ends
ClaimRepo(st, w) ==
  IF st.cursor < st.total
  THEN [st EXCEPT !.cursor = @ + 1,
                  !.workers[w] = [pc |-> "fetching", index |-> st.cursor],
                  !.fetches[st.cursor + 1] = @ + 1]
  ELSE [st EXCEPT !.workers[w] = [pc |-> "done", index |-> -1]]

\* client.test.ts:599: next() is called for one worker after the other, each
\* running up to its first await
RECURSIVE LaunchWorkers(_, _)
LaunchWorkers(st, w) ==
  IF w > Len(st.workers) THEN st ELSE LaunchWorkers(ClaimRepo(st, w), w + 1)

\* client.test.ts:600-609: Promise.all settles
SettleCall(st) ==
  IF st.state # "running" THEN st
  ELSE IF \E w \in DOMAIN st.workers : st.workers[w].pc = "threw" THEN [st EXCEPT !.state = "rejected"]
  ELSE IF \A w \in DOMAIN st.workers : st.workers[w].pc = "done" THEN [st EXCEPT !.state = "resolved"]
  ELSE st

\* client.test.ts:431-600: the call up to the first await of its workers
FetchReadmes ==
  /\ readmeCall.state = "idle"
  /\ \E total \in 0..MaxReadmeRepos, option \in ConcurrencyOptions, aborted \in BOOLEAN :
       LET concurrency == IF option = Unset THEN DEFAULT_README_CONCURRENCY ELSE option
           fresh == [NoReadmes EXCEPT
                       !.state = "running", !.total = total, !.concurrency = concurrency,
                       !.aborted = aborted,
                       !.workers = [w \in 1..workerCount(concurrency, total) |-> [pc |-> "new", index |-> -1]],
                       !.fetches = [i \in 1..total |-> 0],
                       !.outcomes = [i \in 1..total |-> NoOutcomeYet]]
       IN readmeCall' = SettleCall(LaunchWorkers(fresh, 1))
  /\ ReadmeFrame

\* client.test.ts:462-596: the request of worker w comes to its end; the
\* record is pushed and counted, or, with the signal aborted, the error is
\* thrown on; then the worker goes round its loop
ReadmeSettles(w) ==
  /\ readmeCall.state \in {"running", "rejected"}
  /\ w \in DOMAIN readmeCall.workers
  /\ readmeCall.workers[w].pc = "fetching"
  /\ \E outcome \in FetchOutcomes :
       LET index == readmeCall.workers[w].index
           seen == [readmeCall EXCEPT !.outcomes[index + 1] = outcome]
       IN IF outcome \in {"throws", "429 then throws"} /\ readmeCall.aborted
          THEN readmeCall' = SettleCall([seen EXCEPT !.workers[w] = [pc |-> "threw", index |-> -1]])
          ELSE LET handled == Handled(ReadmeRepo(index), outcome)
                   pushed == [seen EXCEPT !.records = Append(@, handled.record),
                                          !.missingCount = @ + handled.missing,
                                          !.failedCount = @ + handled.failed,
                                          !.completed = @ + 1]
               IN readmeCall' = SettleCall(ClaimRepo(pushed, w))
  /\ ReadmeFrame

\* options.signal is aborted while requests are under way
AbortReadmes ==
  /\ readmeCall.state = "running"
  /\ ~readmeCall.aborted
  /\ readmeCall' = [readmeCall EXCEPT !.aborted = TRUE]
  /\ ReadmeFrame

\* the caller has the result or the error, and no request is left
ReadmesReturn ==
  /\ readmeCall.state \in {"resolved", "rejected"}
  /\ \A w \in DOMAIN readmeCall.workers : readmeCall.workers[w].pc # "fetching"
  /\ readmeCall' = NoReadmes
  /\ ReadmeFrame

NextReadmes ==
  \/ FetchReadmes
  \/ \E w \in 1..MaxReadmeRepos : ReadmeSettles(w)
  \/ AbortReadmes
  \/ ReadmesReturn

\* ------------------------------------------------------------------------
\* The loop of splitIntoChunks (chunker.ts:105-123)
\* ------------------------------------------------------------------------
\* the lengths of the texts that are split, on both sides of the limits of
\* the tiers and of the window sizes
TextLengths == {0, 1, 22, 760, 761, 900, 901, 3000, 3001, 15000, 15001, 100022}

NoSplit == [pc |-> "idle", length |-> 0, size |-> 0, overlap |-> 0, start |-> 0, chunks |-> <<>>]

InitSplit == split = NoSplit

SplitIdle == InitSplit

SplitFrame == UNCHANGED <<checksumVars, searchVars, lastDbCall, chunkVars, pipelineVars, orderVars, vectorVars, cycleVars, embedderVars, generationVars, readmeVars, poolVars, dbVars, syncVars, runVars, chatVars>>

\* text.slice(start, end) of a text of this length, as the characters
\* [from, to) it holds
sliceOf(length, start, end) == [from |-> Min(start, length), to |-> Min(end, length)]

\* a step that leaves out the overlap twice
nextStartPastOverlap(start, size, overlap) == start + size + overlap

\* chunker.ts:119
nextStart(start, size, overlap) == start + size - overlap

\* chunker.ts:105-115, called as chunkRepo calls it (142-144): the check of
\* the window, the empty text, or the loop set up
SplitIntoChunks ==
  /\ split.pc = "idle"
  /\ \E length \in TextLengths :
       LET config == resolveChunkConfig(length) IN
       split' =
         IF config.size <= 0 \/ config.overlap < 0 \/ config.overlap >= config.size
         THEN [NoSplit EXCEPT !.pc = "threw", !.length = length, !.size = config.size, !.overlap = config.overlap]
         ELSE IF length = 0
         THEN [NoSplit EXCEPT !.pc = "returned", !.size = config.size, !.overlap = config.overlap,
                              !.chunks = <<sliceOf(0, 0, 0)>>]
         ELSE [NoSplit EXCEPT !.pc = "looping", !.length = length, !.size = config.size, !.overlap = config.overlap]
  /\ SplitFrame

\* chunker.ts:117-122: the test of the loop, and one turn of it or the return
SplitLoop ==
  /\ split.pc = "looping"
  /\ split' =
       IF split.start < split.length
       THEN [split EXCEPT !.chunks = Append(@, sliceOf(split.length, split.start, split.start + split.size)),
                          !.start = nextStart(split.start, split.size, split.overlap)]
       ELSE [split EXCEPT !.pc = "returned"]
  /\ SplitFrame

\* the caller has the chunks
SplitReturns ==
  /\ split.pc \in {"returned", "threw"}
  /\ split' = NoSplit
  /\ SplitFrame

NextSplit == SplitIntoChunks \/ SplitLoop \/ SplitReturns

NextClear ==
  \/ \E k \in DbCallIds : UpsertRepos(k)
  \/ \E k \in DbCallIds : UpsertEmbeddings(k)
  \/ \E k \in DbCallIds : OpfsWriteSettles(k)
  \/ \E k \in DbCallIds : ClearAllData(k)
  \/ \E k \in DbCallIds : ClearOpfsSettles(k)
  \/ FindSimilarChunks
  \/ Open
  \/ AddCheckedMessage

HelpersIdle == ChecksumIdle /\ SearchIdle /\ NoDbCallYet /\ ChunksIdle /\ NoPipeline /\ OrdersIdle /\ VectorsIdle /\ CycleIdle /\ EmbedderIdle /\ GenerationsIdle /\ ReadmesIdle /\ SplitIdle

\* ------------------------------------------------------------------------
\* Specifications
\* ------------------------------------------------------------------------
\* a pool on its own, the database not opened
InitPoolAlone == InitPool /\ DbNotOpened /\ SyncNotStarted /\ NoRunStarted /\ ChatNotOpened /\ HelpersIdle

SpecPool == InitPoolAlone /\ [][NextPool]_vars

\* each live worker answers every request it was sent (Embedder.ts:65-101,
\* worker.ts:84-131)
WorkersAnswer == \A c \in CallIds : \A w \in 0..(DEFAULT_POOL_SIZE - 1) : WF_vars(WorkerResponds(c, w))

SpecPoolFair == SpecPool /\ WorkersAnswer

\* a database on its own, no pool constructed
InitDbAlone == InitDb /\ PoolNotConstructed /\ SyncNotStarted /\ NoRunStarted /\ ChatNotOpened /\ HelpersIdle

SpecDb == InitDbAlone /\ [][NextDb]_vars

\* a database of an earlier session on its own
InitStoredAlone == InitStored /\ PoolNotConstructed /\ SyncNotStarted /\ NoRunStarted /\ ChatNotOpened /\ HelpersIdle

\* the calls of a sync that finds repositories gone, and of the search
NextStored ==
  \/ \E k \in DbCallIds : DeleteReposByIds(k)
  \/ \E k \in DbCallIds : DeleteChunksByRepoIds(k)
  \/ \E k \in DbCallIds : UpsertEmbeddings(k)
  \/ \E k \in DbCallIds : OpfsWriteSettles(k)
  \/ FindSimilarChunks

SpecStored == InitStoredAlone /\ [][NextStored]_vars

\* the embedding writes of a run on a stored database, the flush the page
\* asks for, and the clock
NextCheckpoint ==
  \/ \E k \in DbCallIds : UpsertEmbeddings(k)
  \/ \E k \in DbCallIds : FlushPendingEmbeddingCheckpoint(k)
  \/ \E k \in DbCallIds : OpfsWriteSettles(k)
  \/ WaitTick

SpecCheckpoint == InitStoredAlone /\ [][NextCheckpoint]_vars

\* one sync plan on its own
InitSyncAlone == InitSync /\ PoolNotConstructed /\ DbNotOpened /\ NoRunStarted /\ ChatNotOpened /\ HelpersIdle

SpecSync == InitSyncAlone /\ [][NextSync]_vars

\* the embedding runs over one database
InitRunAlone == InitRun /\ PoolNotConstructed /\ SyncNotStarted /\ ChatNotOpened /\ HelpersIdle

SpecRun == InitRunAlone /\ [][NextRun]_vars

\* a step that can be taken is taken: the awaited calls settle, and the user
\* starts the next run when one has ended
SpecRunFair == SpecRun /\ WF_vars(NextRun)

\* the chat tables of one stored database, opened and written to
InitChatAlone == InitChat /\ PoolNotConstructed /\ DbNotOpened /\ SyncNotStarted /\ NoRunStarted /\ HelpersIdle

SpecChat == InitChatAlone /\ [][NextChat]_vars

\* the checksum inputs of two repositories
InitChecksumAlone == InitChecksum /\ PoolNotConstructed /\ DbNotOpened /\ SyncNotStarted /\ NoRunStarted /\ ChatNotOpened /\ SearchIdle /\ NoDbCallYet /\ ChunksIdle /\ NoPipeline /\ OrdersIdle /\ VectorsIdle /\ CycleIdle /\ EmbedderIdle /\ GenerationsIdle /\ ReadmesIdle /\ SplitIdle

SpecChecksum == InitChecksumAlone /\ [][NextChecksum]_vars

InitSearchAlone == InitSearch /\ PoolNotConstructed /\ DbNotOpened /\ SyncNotStarted /\ NoRunStarted /\ ChatNotOpened /\ ChecksumIdle /\ NoDbCallYet /\ ChunksIdle /\ NoPipeline /\ OrdersIdle /\ VectorsIdle /\ CycleIdle /\ EmbedderIdle /\ GenerationsIdle /\ ReadmesIdle /\ SplitIdle

SpecSearch == InitSearchAlone /\ [][NextSearch]_vars

\* a stored database without embeddings yet and a fresh set of chat tables
InitCheckedAlone == InitStored /\ getEmbeddingCount(db) = 0 /\ InitChat /\ chatExport = NoChat /\ PoolNotConstructed /\ SyncNotStarted /\ NoRunStarted /\ HelpersIdle

SpecChecked == InitCheckedAlone /\ [][NextChecked]_vars

InitChunksAlone == InitChunks /\ PoolNotConstructed /\ DbNotOpened /\ SyncNotStarted /\ NoRunStarted /\ ChatNotOpened /\ ChecksumIdle /\ SearchIdle /\ NoDbCallYet /\ NoPipeline /\ OrdersIdle /\ VectorsIdle /\ CycleIdle /\ EmbedderIdle /\ GenerationsIdle /\ ReadmesIdle /\ SplitIdle

SpecChunks == InitChunksAlone /\ [][NextChunks]_vars

InitPipelineAlone == InitPipeline /\ PoolNotConstructed /\ DbNotOpened /\ SyncNotStarted /\ NoRunStarted /\ ChatNotOpened /\ ChecksumIdle /\ SearchIdle /\ NoDbCallYet /\ ChunksIdle /\ OrdersIdle /\ VectorsIdle /\ CycleIdle /\ EmbedderIdle /\ GenerationsIdle /\ ReadmesIdle /\ SplitIdle

SpecPipeline == InitPipelineAlone /\ [][NextPipeline]_vars

InitOrdersAlone == InitOrders /\ PoolNotConstructed /\ DbNotOpened /\ SyncNotStarted /\ NoRunStarted /\ ChatNotOpened /\ ChecksumIdle /\ SearchIdle /\ NoDbCallYet /\ ChunksIdle /\ NoPipeline /\ VectorsIdle /\ CycleIdle /\ EmbedderIdle /\ GenerationsIdle /\ ReadmesIdle /\ SplitIdle

SpecOrders == InitOrdersAlone /\ [][NextOrders]_vars

InitVectorsAlone == InitVectors /\ PoolNotConstructed /\ DbNotOpened /\ SyncNotStarted /\ NoRunStarted /\ ChatNotOpened /\ ChecksumIdle /\ SearchIdle /\ NoDbCallYet /\ ChunksIdle /\ NoPipeline /\ OrdersIdle /\ CycleIdle /\ EmbedderIdle /\ GenerationsIdle /\ ReadmesIdle /\ SplitIdle

SpecVectors == InitVectorsAlone /\ [][NextVectors]_vars

\* a stored database with its chat tables, and the calls around a clearAllData
InitClearAlone == InitStored /\ InitChat /\ chatExport = NoChat /\ PoolNotConstructed /\ SyncNotStarted /\ NoRunStarted /\ HelpersIdle

SpecClear == InitClearAlone /\ [][NextClear]_vars

InitCycleAlone == InitCycle /\ PoolNotConstructed /\ DbNotOpened /\ NoRunStarted /\ ChatNotOpened /\ ChecksumIdle /\ SearchIdle /\ NoDbCallYet /\ ChunksIdle /\ NoPipeline /\ OrdersIdle /\ VectorsIdle /\ EmbedderIdle /\ GenerationsIdle /\ ReadmesIdle /\ SplitIdle

SpecCycle == InitCycleAlone /\ [][NextCycle]_vars

InitHealAlone == InitHeal /\ PoolNotConstructed /\ SyncNotStarted /\ NoRunStarted /\ ChatNotOpened /\ HelpersIdle

SpecHeal == InitHealAlone /\ [][NextHeal]_vars

InitEmbedderAlone == InitEmbedder /\ PoolNotConstructed /\ DbNotOpened /\ SyncNotStarted /\ NoRunStarted /\ ChatNotOpened /\ ChecksumIdle /\ SearchIdle /\ NoDbCallYet /\ ChunksIdle /\ NoPipeline /\ OrdersIdle /\ VectorsIdle /\ CycleIdle /\ GenerationsIdle /\ ReadmesIdle /\ SplitIdle

SpecEmbedder == InitEmbedderAlone /\ [][NextEmbedder]_vars

\* a database kept in localStorage, where persist() has no await
InitGenerationsAlone == InitStored /\ storageMode = "local-storage" /\ PoolNotConstructed /\ SyncNotStarted /\ NoRunStarted /\ ChatNotOpened /\ HelpersIdle

SpecGenerations == InitGenerationsAlone /\ [][NextGenerations]_vars

InitReadmesAlone == InitReadmes /\ PoolNotConstructed /\ DbNotOpened /\ SyncNotStarted /\ NoRunStarted /\ ChatNotOpened /\ ChecksumIdle /\ SearchIdle /\ NoDbCallYet /\ ChunksIdle /\ NoPipeline /\ OrdersIdle /\ VectorsIdle /\ CycleIdle /\ EmbedderIdle /\ GenerationsIdle /\ SplitIdle

SpecReadmes == InitReadmesAlone /\ [][NextReadmes]_vars

InitSplitAlone == InitSplit /\ PoolNotConstructed /\ DbNotOpened /\ SyncNotStarted /\ NoRunStarted /\ ChatNotOpened /\ ChecksumIdle /\ SearchIdle /\ NoDbCallYet /\ ChunksIdle /\ NoPipeline /\ OrdersIdle /\ VectorsIdle /\ CycleIdle /\ EmbedderIdle /\ GenerationsIdle /\ ReadmesIdle

SpecSplit == InitSplitAlone /\ [][NextSplit]_vars

\* the loop is synchronous code: once entered it runs on
SpecSplitFair == SpecSplit /\ WF_vars(SplitLoop)

\* ------------------------------------------------------------------------
\* Properties of the worker pool
\* ------------------------------------------------------------------------
Accepted(c) == calls[c].state \in {"running", "resolved"}
Resolved(c) == calls[c].state = "resolved"
JobOfText(call, t) == CHOOSE j \in DOMAIN call.jobs : \E k \in DOMAIN call.jobs[j].texts : call.jobs[j].texts[k] = t
Downshifted == activePoolSize = 1 /\ configuredPoolSize > 1

ResultsInInputOrder ==
  \A c \in CallIds : Resolved(c) =>
    /\ Len(calls[c].results) = Len(calls[c].texts)
    /\ \A i \in DOMAIN calls[c].texts :
         calls[c].results[i] = calls[c].produced[calls[c].texts[i]].item

EmptyCallTouchesNoWorker ==
  \A c \in CallIds :
    (calls[c].state = "idle" /\ calls'[c].state = "resolved") =>
      /\ calls'[c].results = <<>>
      /\ calls'[c].sent = <<>>
      /\ embedders' = embedders

\* C1: a resolved embedBatch call has exactly one result per input text and
\* result i is the outcome the workers produced for text i, whatever the pool
\* size, the micro-batch size and the order in which the worker calls settle;
\* embedBatch([]) resolves with [] and neither creates nor calls a worker.
C1_OrderedResults == []ResultsInInputOrder /\ [][EmptyCallTouchesNoWorker]_vars

\* a call of three single-text jobs whose worker calls settled out of order
\* (the second job was stored before the first) and gave three vectors
C1_Witness ==
  \E c \in CallIds :
    /\ Resolved(c)
    /\ Len(calls[c].texts) = 3
    /\ Len(calls[c].jobs) = 3
    /\ \A i \in 1..3 : calls[c].results[i] = Item(Vec(i), Null)
    /\ calls[c].sent[3].worker = 1

\* C2: when the worker call of a sub-batch throws or answers with a list of
\* the wrong length, every slot of that sub-batch holds a null vector and the
\* one error message, every other slot holds what its own sub-batch produced
\* (or the placeholder while that is still outstanding), and the call is
\* never rejected.
C2_FailedSubBatch ==
  \A c \in CallIds :
    /\ (calls[c].state = "rejected" => Len(calls[c].texts) > maxQueueSize)
    /\ Accepted(c) =>
         \A t \in DOMAIN calls[c].produced :
           LET out == calls[c].produced[t]
               job == calls[c].jobs[JobOfText(calls[c], t)]
           IN /\ out.cause \in {"throw", "mismatch"} =>
                   \A k \in DOMAIN job.texts :
                     /\ calls[c].results[job.texts[k]].embedding = NoVector
                     /\ calls[c].results[job.texts[k]].error = out.item.error
              /\ out.cause = "item" => calls[c].results[t] = out.item
              /\ out.cause = "none" => calls[c].results[t] = Placeholder

\* a resolved call of two sub-batches: the worker call of the first, of two
\* texts, was rejected, the second gave its vector
C2_Witness ==
  \E c \in CallIds :
    /\ Resolved(c)
    /\ Len(calls[c].jobs) = 2
    /\ Len(calls[c].texts) = 3
    /\ calls[c].produced[1].cause = "throw"
    /\ calls[c].produced[2].cause = "throw"
    /\ calls[c].results[3] = Item(Vec(3), Null)

\* a resolved call whose one sub-batch of two texts was answered with a list
\* of one item
C2_WitnessMismatch ==
  \E c \in CallIds :
    /\ Resolved(c)
    /\ Len(calls[c].jobs) = 1
    /\ Len(calls[c].produced) = 2
    /\ \A t \in 1..2 : calls[c].produced[t].cause = "mismatch"

\* C3: activePoolSize starts as configuredPoolSize, is always either
\* configuredPoolSize or 1, and once it is 1 it stays 1 under every step of
\* the pool (embedBatch, worker answers, getStatus, terminate).
C3_DownshiftIsOneWay ==
  /\ activePoolSize = configuredPoolSize
  /\ [](activePoolSize \in {configuredPoolSize, 1})
  /\ [][activePoolSize = 1 => activePoolSize' = 1]_vars

\* a downshifted pool of two whose workers were terminated afterwards and
\* which has started a new call since
C3_Witness ==
  /\ Downshifted
  /\ Len(embedders) = 1
  /\ \E c \in CallIds : calls[c].state = "running" /\ \A w \in DOMAIN calls[c].workers : calls[c].workers[w].live

\* C4: when an embedBatch call has resolved, activePoolSize is 1 if some item
\* error so far carried the memory-pressure signature or the number of failed
\* items so far has reached downshiftErrorThreshold, and it still is
\* configuredPoolSize if neither has happened.
C4_DownshiftOnTrigger ==
  (\E c \in CallIds : Resolved(c)) =>
    LET triggered == memorySignalSeen \/ failedItems >= downshiftErrorThreshold IN
    /\ triggered => activePoolSize = 1
    /\ ~triggered => activePoolSize = configuredPoolSize

\* a pool of two that downshifted on a rejected worker call with an
\* allocation failure, with fewer failed items than the threshold
C4_Witness ==
  /\ \E c \in CallIds : Resolved(c) /\ \E t \in DOMAIN calls[c].produced :
        calls[c].produced[t] = [item |-> Item(NoVector, "Allocation failed"), cause |-> "throw"]
  /\ configuredPoolSize = 2
  /\ activePoolSize = 1
  /\ failedItems < downshiftErrorThreshold

\* a pool of two that has seen one plain error, below the threshold, and
\* still runs two workers
C4_WitnessBelow ==
  /\ \E c \in CallIds : Resolved(c)
  /\ configuredPoolSize = 2
  /\ activePoolSize = 2
  /\ failedItems = 1

\* C5: a worker other than worker 0 claims a sub-batch only while the pool is
\* not downshifted: in the call in which the downshift happens the other
\* workers stop after the job they hold and worker 0 takes all that is left,
\* and a call started later sends every sub-batch to worker 0.
C5_OnlyWorkerZeroAfterDownshift ==
  \A c \in CallIds :
    /\ \A k \in DOMAIN calls[c].sent :
         calls[c].sent[k].worker > 0 => calls[c].sent[k].active > 1
    /\ Resolved(c) =>
         \A j \in DOMAIN calls[c].jobs : \E k \in DOMAIN calls[c].sent : calls[c].sent[k].job = j - 1

\* the downshift happened while worker 1 held the second of three jobs;
\* worker 0 took the third
C5_Witness ==
  \E c \in CallIds :
    /\ Resolved(c)
    /\ Len(calls[c].jobs) = 3
    /\ calls[c].sent[2] = [worker |-> 1, job |-> 1, active |-> 2]
    /\ calls[c].sent[3] = [worker |-> 0, job |-> 2, active |-> 1]

\* a call of two jobs started on a downshifted pool of two
C5_WitnessLater ==
  \E c \in CallIds :
    /\ configuredPoolSize = 2
    /\ Len(calls[c].jobs) = 2
    /\ Len(calls[c].sent) = 2
    /\ \A k \in 1..2 : calls[c].sent[k].worker = 0 /\ calls[c].sent[k].active = 1

RECURSIVE Concat(_)
Concat(seqs) == IF seqs = <<>> THEN <<>> ELSE Head(seqs) \o Concat(Tail(seqs))

\* C6: the N texts of an accepted call are split into ceil(N/workerBatchSize)
\* contiguous sub-batches of at most workerBatchSize texts; no sub-batch is
\* sent twice, and when the call resolves every sub-batch has been sent
\* exactly once and no slot holds the placeholder any more.
C6_EverySubBatchOnce ==
  \A c \in CallIds : Accepted(c) =>
    LET call == calls[c]
        n == Len(call.texts)
        timesSent(j) == Cardinality({k \in DOMAIN call.sent : call.sent[k].job = j - 1})
    IN /\ Len(call.jobs) = (n + workerBatchSize - 1) \div workerBatchSize
       /\ Concat([j \in DOMAIN call.jobs |-> call.jobs[j].texts]) = call.texts
       /\ \A j \in DOMAIN call.jobs :
            /\ Len(call.jobs[j].texts) \in 1..workerBatchSize
            /\ timesSent(j) <= 1
            /\ Resolved(c) => timesSent(j) = 1
       /\ Resolved(c) => \A i \in DOMAIN call.results : call.results[i] # Placeholder

\* three texts in micro-batches of two: two sub-batches, the second short
C6_Witness ==
  \E c \in CallIds :
    /\ Resolved(c)
    /\ workerBatchSize = 2
    /\ Len(calls[c].texts) = 3
    /\ Len(calls[c].jobs) = 2
    /\ Len(calls[c].sent) = 2

OverflowLeavesPoolAlone ==
  \A c \in CallIds :
    (calls[c].state = "idle" /\ calls'[c].state = "rejected") =>
      /\ Len(calls'[c].texts) > maxQueueSize
      /\ calls'[c].sent = <<>>
      /\ UNCHANGED <<errorCount, activePoolSize, embedders, downshiftReason>>

\* C7: a call with more than maxQueueSize texts is rejected before a worker
\* is created or called and leaves errorCount, activePoolSize and the
\* embedders as they were; a call is rejected for no other size, so a call of
\* exactly maxQueueSize texts is accepted.
C7_OverflowFailsFast ==
  /\ [][OverflowLeavesPoolAlone]_vars
  /\ [](\A c \in CallIds :
          /\ calls[c].state = "rejected" => Len(calls[c].texts) > maxQueueSize
          /\ Accepted(c) => Len(calls[c].texts) <= maxQueueSize)

\* a rejected call beside an accepted call of exactly maxQueueSize texts, on
\* a pool that has counted an error
C7_Witness ==
  /\ errorCount > 0
  /\ \E c \in CallIds : calls[c].state = "rejected"
  /\ \E c \in CallIds : Accepted(c) /\ Len(calls[c].texts) = maxQueueSize

\* ------------------------------------------------------------------------
\* Properties of the persistence layer
\* ------------------------------------------------------------------------
\* C8: whenever no call of the persistence layer is in progress, fewer than
\* everyEmbeddings embeddings have been written to the store since the last
\* export to stable storage was taken.
C8_UnexportedBelowThreshold ==
  AllDbCallsIdle => writtenSinceExport < everyEmbeddings

\* C9: once every overlapping mutating call has completed, the snapshot the
\* next start would load from stable storage is the export of the in-memory
\* state (stated for the case most favourable to the code: OPFS has never
\* failed, and the last export taken was of the state the database is in).
C9_SnapshotIsFinalState ==
  (AllDbCallsIdle /\ storageMode = "opfs" /\ exportIsCurrent) => StableSnapshot = export(db)

\* the rows of the embeddings table, in row order
RECURSIVE StoreRows(_, _)
StoreRows(database, id) ==
  IF id \notin EmbeddingIds THEN <<>>
  ELSE (IF database.embeddings[id] # NoRow THEN <<database.embeddings[id]>> ELSE <<>>)
         \o StoreRows(database, id + 1)

\* C10: in every state the persistence layer can reach, the vectors a
\* findSimilarChunks call would rank are exactly the rows of the embeddings
\* table at that moment, whether the call reuses the cache or rebuilds it.
C10_CacheNeverStale ==
  ensureVectorIndexCache(vectorIndexCache, vectorIndexCacheCount, db).vectors = StoreRows(db, 1)

\* a cache that was built over rows the table has lost since, without any
\* invalidation (the table was recreated): the row count gives it away
C10_Witness ==
  /\ vectorIndexCache.built
  /\ vectorIndexCache.rows # <<>>
  /\ StoreRows(db, 1) = <<>>

\* a cache in use over a row that was stored with another vector before
C10_WitnessReused ==
  /\ vectorIndexCache.built
  /\ vectorIndexCacheCount = getEmbeddingCount(db)
  /\ vectorIndexCache.rows = <<Row(1, 2)>>
  /\ StableSnapshot.tables.embeddings[1] = Row(1, 1)

\* the chunks of a repository, and the embeddings of its chunks by id
ChunksOf(database, r) == {c \in database.chunks : RepoOf(c) = r}
EmbeddingsOf(database, r) ==
  {<<id, database.embeddings[id]>> :
     id \in {i \in EmbeddingIds : /\ database.embeddings[i] # NoRow
                                  /\ RepoOf(database.embeddings[i].chunkId) = r}}

\* no chunk without its repository, no embedding without its chunk, and
\* findSimilarChunks ranks vectors of stored repositories only
NothingOfDeletedRepos ==
  /\ \A c \in db.chunks : RepoOf(c) \in db.repos
  /\ \A id \in EmbeddingIds :
       db.embeddings[id] # NoRow => db.embeddings[id].chunkId \in db.chunks
  /\ LET vectors == ensureVectorIndexCache(vectorIndexCache, vectorIndexCacheCount, db).vectors
     IN \A i \in DOMAIN vectors : RepoOf(vectors[i].chunkId) \in db.repos

\* a step that deletes a repository leaves nothing of it, and leaves the
\* repositories it keeps with their chunks and embeddings
DeleteTakesOnlyItsOwn ==
  \A q \in RepoIds : (q \in db.repos /\ q \notin db'.repos) =>
    /\ ChunksOf(db', q) = {}
    /\ EmbeddingsOf(db', q) = {}
    /\ \A r \in db.repos \ {q} :
         r \in db'.repos =>
           /\ ChunksOf(db', r) = ChunksOf(db, r)
           /\ EmbeddingsOf(db', r) = EmbeddingsOf(db, r)

\* C12: when deleteReposByIds has deleted repositories, no chunk and no
\* embedding of them is left in the store or among the vectors
\* findSimilarChunks ranks, and the repositories, chunks and embeddings of
\* every other id are as they were.
C12_DeleteCascades == []NothingOfDeletedRepos /\ [][DeleteTakesOnlyItsOwn]_vars

\* repository 1 has been deleted with its chunk and its embedding (the
\* snapshot in the OPFS file still has them); repository 2, its chunk and
\* its embedding are stored
C12_Witness ==
  /\ db.repos = {2}
  /\ db.chunks = {2}
  /\ db.embeddings[1] = NoRow
  /\ db.embeddings[2] = Row(2, 1)
  /\ opfsFile.present
  /\ opfsFile.tables.embeddings[1] = Row(1, 1)

\* ------------------------------------------------------------------------
\* Properties of the sync plan
\* ------------------------------------------------------------------------
SeqRange(s) == {s[i] : i \in DOMAIN s}
TopicSet(topics) == {topics[i] : i \in DOMAIN topics}

\* the remote repository differs from the stored copy in a checksum-relevant
\* field, the topics taken as sets
DiffersFromLocal(local, remote) ==
  \/ local.fullName # remote.full_name
  \/ local.description # remote.description
  \/ local.language # remote.language
  \/ local.updatedAt # remote.updated_at
  \/ TopicSet(local.topics) # TopicSet(TopicsOrEmpty(remote))

\* C11: the plan removes exactly the local ids that are absent from the
\* remote snapshot, and its candidates are exactly the remote ids that are
\* new locally, have no stored checksum, or differ from the stored copy in a
\* checksum-relevant field with the topics compared as sets; removed and
\* candidate ids are disjoint.
C11_SyncPlanIsTheDiff ==
  syncPlan.built =>
    LET localIds == {localRepos[i].id : i \in DOMAIN localRepos}
        remoteIds == {remoteRepos[i].id : i \in DOMAIN remoteRepos}
        stored(id) == CHOOSE l \in SeqRange(localRepos) : l.id = id
        expected == {r.id : r \in {x \in SeqRange(remoteRepos) :
                       \/ x.id \notin localIds
                       \/ stored(x.id).checksum \in {Null, ""}
                       \/ DiffersFromLocal(stored(x.id), x)}}
    IN /\ SeqRange(syncPlan.removedRepoIds) = localIds \ remoteIds
       /\ SeqRange(syncPlan.candidateRepoIds) = expected
       /\ SeqRange(syncPlan.removedRepoIds) \cap SeqRange(syncPlan.candidateRepoIds) = {}

\* repository 1 is gone remotely, repository 3 is new, and repository 2 is
\* stored with a checksum and differs from the remote copy in the order of
\* its topics only: the plan removes 1 and has 3 as its only candidate
C11_Witness ==
  /\ syncPlan.built
  /\ Len(localRepos) = 2 /\ Len(remoteRepos) = 2
  /\ localRepos[2].checksum = "hash-1"
  /\ localRepos[2].topics = <<"zeta", "alpha">>
  /\ remoteRepos[1].topics = <<"alpha", "zeta">>
  /\ syncPlan.removedRepoIds = <<1>>
  /\ syncPlan.candidateRepoIds = <<3>>

\* ------------------------------------------------------------------------
\* Properties of the embedding runs
\* ------------------------------------------------------------------------
HasEmbedding(database, c) == \E id \in EmbeddingIds : database.embeddings[id].chunkId = c

\* the chunks that can be embedded all have their embedding stored
HealthyChunksEmbedded == \A c \in db.chunks \ failingChunks : HasEmbedding(db, c)

\* no step of a run takes a stored embedding away
StoredEmbeddingsStay ==
  \A id \in EmbeddingIds : db.embeddings[id] # NoRow => db'.embeddings[id] = db.embeddings[id]

\* C13: with runs started again and again, every chunk other than the
\* persistently failing ones gets its embedding stored, in the run in which
\* the failure happens or in a later one, and no stored embedding is lost.
C13_FailingChunkBlocksNoOther ==
  /\ <>HealthyChunksEmbedded
  /\ [][StoredEmbeddingsStay]_vars

\* ------------------------------------------------------------------------
\* Properties of the chat tables
\* ------------------------------------------------------------------------
\* every stored message names a stored session
MessagesHaveSessions ==
  \A m \in chat.messages.rows : \E s \in chat.sessions.rows : s.id = m.sessionId

\* an addChatMessage with an id and a session id, and nothing going wrong in
\* the engine, comes to its end with the message stored under its session;
\* any addChatMessage leaves the row of a session that was stored as it was
AddCreatesSession ==
  lastChatOp'.op = "addChatMessage" =>
    /\ (~lastChatOp'.faulted /\ lastChatOp'.id # "" /\ lastChatOp'.sessionId # "")
         => lastChatOp'.outcome = "ok"
    /\ lastChatOp'.outcome = "ok" =>
         /\ chatSessionExists(chat', lastChatOp'.sessionId)
         /\ \E m \in chat'.messages.rows :
              m.id = lastChatOp'.id /\ m.sessionId = lastChatOp'.sessionId
    /\ \A s \in chat.sessions.rows :
         s.id = lastChatOp'.sessionId => s \in chat'.sessions.rows

\* C14: whatever has been done, every stored chat message names a stored
\* session; addChatMessage for a session that is not stored creates it and
\* stores the message, and leaves a session row that is stored unchanged.
C14_MessagesReferenceSessions ==
  /\ []MessagesHaveSessions
  /\ [][AddCreatesSession]_vars

\* a message was added for session s1, which was not stored and now is, with
\* the empty query of a row made on the fly
C14_Witness ==
  /\ lastChatOp.op = "addChatMessage"
  /\ lastChatOp.outcome = "ok"
  /\ lastChatOp.sessionId = "s1"
  /\ SessionRow("s1", "", 2, 2) \in chat.sessions.rows
  /\ \E m \in chat.messages.rows : m.id = lastChatOp.id /\ m.sessionId = "s1"

\* no two messages of one session with one sequence number
SequencesUnique ==
  \A m \in chat.messages.rows, o \in chat.messages.rows :
    (m.sessionId = o.sessionId /\ m.sequence = o.sequence) => m.id = o.id

\* a message stored under a new id comes after all the messages of its session
NewMessageIsLast ==
  (/\ lastChatOp'.op = "addChatMessage"
   /\ lastChatOp'.outcome = "ok"
   /\ \A m \in chat.messages.rows : m.id # lastChatOp'.id)
  => \A n \in chat'.messages.rows, m \in chat.messages.rows :
       (n.id = lastChatOp'.id /\ m.sessionId = n.sessionId) => m.sequence < n.sequence

\* C15: in one session no two stored messages have one sequence number, and
\* a newly added message has a sequence number above those of all messages
\* stored in its session, for any addChatMessage calls and after a rebuild
\* of legacy tables.
C15_SequencesUniqueAndIncreasing ==
  /\ []SequencesUnique
  /\ [][NewMessageIsLast]_vars

\* the tables an open found, where they are still the stored ones
ValidStoredMessages ==
  { m \in chatExport.messages.rows :
      /\ TRIM(m.id) # ""
      /\ \E s \in chatExport.sessions.rows : TRIM(s.id) # "" /\ s.id = m.sessionId }

\* an open that runSchema came through leaves the canonical tables, with the
\* stored messages that have an id and a stored session, and with no message
\* without a session
OpenHeals ==
  (~chatOpened /\ lastChatOp'.op = "open" /\ lastChatOp'.outcome = "ok") =>
    /\ IsCanonical(chat')
    /\ hasChatMessagesForeignKey(chat')
    /\ \A m \in ValidStoredMessages : \E n \in chat'.messages.rows : n.id = m.id
    /\ \A n \in chat'.messages.rows :
         /\ TRIM(n.id) # ""
         /\ TRIM(n.sessionId) # ""
         /\ chatSessionExists(chat', n.sessionId)

\* C16: after the open of a database whose chat tables are not of the
\* expected shape, the tables are canonical with the cascading foreign key,
\* every message with an id whose session is stored is still stored, and no
\* message with a blank or unknown session is left.
C16_OpenRestoresChatTables == [][OpenHeals]_vars

\* the open of tables without NOT NULL, role check, foreign key and sequence
\* column that held m1 and m2 of session s1, an orphan and a message without
\* session: the rebuild was run and m1 and m2 are what is left
C16_Witness ==
  /\ lastChatOp.op = "open"
  /\ lastChatOp.outcome = "ok"
  /\ lastChatOp.heals = 1
  /\ ~chatExport.messages.fk /\ ~chatExport.messages.notNull
  /\ {m.id : m \in chatExport.messages.rows} = {"m1", "m2", "m3", "m4"}
  /\ MessageRow("m2", "s1", "bogus", NoSequence) \in chatExport.messages.rows
  /\ {m.id : m \in chat.messages.rows} = {"m1", "m2"}
  /\ IsCanonical(chat)

\* the writes of the layer that heal and retry
ChatWrites == {"addChatMessage", "upsertChatSession"}

C18_RebuildRollsBack ==
  /\ lastChatOp.rebuildFailed =>
       /\ lastChatOp.left.sessions = lastChatOp.before.sessions
       /\ lastChatOp.left.messages = lastChatOp.before.messages
       /\ lastChatOp.left.foreignKeys
  /\ (lastChatOp.op \in ChatWrites /\ lastChatOp.heals >= 1) => chat.foreignKeys

\* an addChatMessage whose rebuild failed: the tables it began on held rows
\* and a trigger, and they are what is in the database now
C18_Witness ==
  /\ lastChatOp.op = "addChatMessage"
  /\ lastChatOp.rebuildFailed
  /\ lastChatOp.before.sessions.rows # {}
  /\ lastChatOp.before.messages.trigger
  /\ chat.sessions = lastChatOp.before.sessions
  /\ chat.messages = lastChatOp.before.messages
  /\ chat.foreignKeys

\* C19: embeddings that were written and not exported since do not wait
\* longer than everyMs from the first unflushed write: with no call under
\* way, the clock is never more than everyMs past pendingEmbeddingsStartedAt
\* while a written embedding is missing from the last export.
C19_ExportWithinEveryMs ==
  (/\ writtenSinceExport > 0
   /\ pendingEmbeddingsStartedAt > 0
   /\ AllDbCallsIdle)
    => now - pendingEmbeddingsStartedAt <= everyMs

\* a flush that has returned true: the counter is 0, the time on the clock
\* is the checkpoint time, and the export the flush took of the whole
\* database is in localStorage, or in the OPFS file when that was written
FlushedTrue ==
  flushed' = "true" =>
    /\ pendingEmbeddingsSinceCheckpoint' = 0
    /\ lastEmbeddingCheckpointAt' = now'
    /\ \/ /\ storageMode = "local-storage"
          /\ localStorageBytes' = export(db')
       \/ \E k \in DbCallIds :
            /\ dbCalls[k].state = "writing"
            /\ dbCalls[k].after = "flush"
            /\ dbCalls'[k].state = "idle"
            /\ dbCalls[k].bytes \in {opfsFile', localStorageBytes'}

\* a flush with unflushed embeddings whose persist waits for its write: the
\* bytes on their way are the export of the whole database, and when the
\* write settles the flush returns true
FlushUnderWay ==
  \A k \in DbCallIds :
    /\ (dbCalls[k].state = "idle" /\ dbCalls'[k].state = "writing" /\ dbCalls'[k].after = "flush")
         => (dbCalls'[k].bytes = export(db') /\ pendingEmbeddingsSinceCheckpoint' > 0)
    /\ (dbCalls[k].state = "writing" /\ dbCalls[k].after = "flush" /\ dbCalls'[k].state = "idle")
         => flushed' = "true"

\* a flush that has returned false: nothing was unflushed, nothing was
\* exported and the checkpoint time is the one before
FlushedFalse ==
  flushed' = "false" =>
    /\ pendingEmbeddingsSinceCheckpoint <= 0
    /\ UNCHANGED <<db, opfsFile, localStorageBytes, storageMode, dbCalls,
                   pendingEmbeddingsSinceCheckpoint, lastEmbeddingCheckpointAt>>

\* C20: flushPendingEmbeddingCheckpoint with unflushed embeddings exports the
\* whole store, sets the pending count to 0, records the time and returns
\* true; with nothing unflushed it returns false, exports nothing and leaves
\* the checkpoint time as it was.
C20_FlushExportsOrReturnsFalse ==
  [][FlushedTrue /\ FlushUnderWay /\ FlushedFalse]_vars

\* a flush of stored embeddings has returned true after its OPFS write: the
\* file holds the database with the embedding, and the time is recorded
C20_Witness ==
  /\ flushed = "true"
  /\ storageMode = "opfs"
  /\ opfsFile = export(db)
  /\ \E id \in NewEmbeddingIds : db.embeddings[id] # NoRow /\ db.embeddings[id].vector = 2
  /\ pendingEmbeddingsSinceCheckpoint = 0
  /\ lastEmbeddingCheckpointAt = now
  /\ now > 1

\* the texts whose outcome came in with this step of call c
SettledTexts(c) ==
  {t \in DOMAIN calls[c].produced :
     calls[c].produced[t].cause = "none" /\ calls'[c].produced[t].cause # "none"}

\* every slot of a resolved call holds a vector or an error
SlotsHoldVectorOrError ==
  \A c \in CallIds : Resolved(c) =>
    \A i \in DOMAIN calls[c].results :
      calls[c].results[i].embedding # NoVector \/ Truthy(calls[c].results[i].error)

\* a worker answer raises the error count by one for each of its items
\* that comes without a vector
ErrorsCountedPerItem ==
  \A c \in CallIds :
    (calls[c].state = "running" /\ calls'[c].state \in {"running", "resolved"}) =>
      errorCount' = errorCount
        + Cardinality({t \in SettledTexts(c) : calls'[c].results[t].embedding = NoVector})

\* C21: every slot embedBatch returns holds a vector or an error, and each
\* item a worker returns without a vector has an error in its slot and
\* raises the cumulative error count by exactly one.
C21_VectorOrCountedError ==
  []SlotsHoldVectorOrError /\ [][ErrorsCountedPerItem]_vars

\* the worker calls of call c that were sent and are not answered yet
InFlight(c) ==
  {i \in DOMAIN calls[c].sent :
     calls[c].produced[calls[c].jobs[calls[c].sent[i].job + 1].texts[1]].cause = "none"}

\* C22: while an embedBatch call runs, the worker calls it has in flight
\* are at most min(activePoolSize when it started, number of sub-batches),
\* no worker of the call has two of them, and the pool holds at most
\* configuredPoolSize embedders.
C22_BoundedWorkerCalls ==
  /\ Len(embedders) <= configuredPoolSize
  /\ \A c \in CallIds :
       (calls[c].state = "running" /\ calls[c].sent # <<>>) =>
         /\ Cardinality(InFlight(c)) <= Min(calls[c].sent[1].active, Len(calls[c].jobs))
         /\ \A i, j \in InFlight(c) :
              calls[c].sent[i].worker = calls[c].sent[j].worker => i = j

\* a call of three sub-batches on a pool of two: both workers have a call
\* in flight, the third sub-batch is still unclaimed
C22_Witness ==
  \E c \in CallIds :
    /\ calls[c].state = "running"
    /\ configuredPoolSize = 2
    /\ Len(calls[c].jobs) = 3
    /\ calls[c].cursor = 2
    /\ Cardinality(InFlight(c)) = 2
    /\ Len(embedders) = 2

\* the topics of a repository as a set
TopicsOf(repo) == {TopicsOrEmpty(repo)[i] : i \in DOMAIN TopicsOrEmpty(repo)}

\* two repositories agree on the fields other than description and language
AgreeOnOtherFields(a, b) ==
  /\ a.repo.id = b.repo.id
  /\ a.repo.full_name = b.repo.full_name
  /\ TopicsOf(a.repo) = TopicsOf(b.repo)
  /\ a.repo.updated_at = b.repo.updated_at
  /\ a.readmeSha256 = b.readmeSha256

\* C23 as stated: two repositories have the same canonical checksum input
\* if and only if they agree on id, full name, description, language, topic
\* set, last-modified time and README hash.
C23_SameInputIffSameFields ==
  checksumInputs # NotComputed =>
    (checksumInputs[1] = checksumInputs[2]
       <=> /\ AgreeOnOtherFields(checksumArgs[1], checksumArgs[2])
           /\ checksumArgs[1].repo.description = checksumArgs[2].repo.description
           /\ checksumArgs[1].repo.language = checksumArgs[2].repo.language)

\* C23 amended: two repositories have the same canonical checksum input if
\* and only if they agree on id, full name, topic set, last-modified time
\* and README hash, and on description and language with a missing (null)
\* value taken as the empty string.
C23_SameInputIffSameFieldsNullAsEmpty ==
  checksumInputs # NotComputed =>
    (checksumInputs[1] = checksumInputs[2]
       <=> /\ AgreeOnOtherFields(checksumArgs[1], checksumArgs[2])
           /\ OrEmpty(checksumArgs[1].repo.description) = OrEmpty(checksumArgs[2].repo.description)
           /\ OrEmpty(checksumArgs[1].repo.language) = OrEmpty(checksumArgs[2].repo.language))

\* the inputs of two repositories whose topics come in different order are
\* built and are equal
C23_Witness ==
  /\ checksumInputs # NotComputed
  /\ checksumInputs[1] = checksumInputs[2]
  /\ checksumArgs[1].repo.topics = <<"zeta", "alpha">>
  /\ checksumArgs[2].repo.topics = <<"alpha", "zeta">>
  /\ checksumArgs[1].repo.description = "d1\nlanguage:TypeScript"

\* ------------------------------------------------------------------------
\* C24
\* ------------------------------------------------------------------------
\* x > y for two JavaScript numbers
Greater(x, y) == ~x.nan /\ ~y.nan /\ x.value > y.value

SameScore(x, y) == ~x.nan /\ ~y.nan /\ x.value = y.value

ScoreOfRow(i) == cosineSimilarity(searchArgs.queryVector, searchStore.rows[i].vector)

ResultChunks == {searchResults.items[i].chunkId : i \in DOMAIN searchResults.items}

AtMostLimit == Len(searchResults.items) <= searchArgs.limit

NonIncreasingScores == \A i, j \in DOMAIN searchResults.items : i < j => ~Greater(searchResults.items[j].score, searchResults.items[i].score)

TiesInRowOrder == \A i, j \in DOMAIN searchResults.items : (i < j /\ SameScore(searchResults.items[i].score, searchResults.items[j].score)) => searchResults.items[i].chunkId < searchResults.items[j].chunkId

NoneLeftOutScoresHigher == \A i \in DOMAIN searchStore.rows : i \notin ResultChunks => \A j \in DOMAIN searchResults.items : ~Greater(ScoreOfRow(i), searchResults.items[j].score)

ResultsHydrated == \A j \in DOMAIN searchResults.items : /\ searchResults.items[j].chunkId \in DOMAIN searchStore.chunks
                                                        /\ searchResults.items[j].repoId \in searchStore.repos
                                                        /\ searchResults.items[j].score = ScoreOfRow(searchResults.items[j].chunkId)

EmptyStoreEmptyResult == Len(searchStore.rows) = 0 => searchResults.items = <<>>

\* C24: findSimilar(query, k) returns at most k results in order of
\* non-increasing score, equal scores in stored row order; no embedding left
\* out scores higher than one that is included; every result is hydrated from
\* a chunk and a repository that exist; an empty store gives an empty result.
C24_TopKByScore ==
  searchResults.done =>
    /\ AtMostLimit
    /\ NonIncreasingScores
    /\ TiesInRowOrder
    /\ NoneLeftOutScoresHigher
    /\ ResultsHydrated
    /\ EmptyStoreEmptyResult


\* ------------------------------------------------------------------------
\* C25
\* ------------------------------------------------------------------------
\* the step is an upsertEmbeddings call with a record whose dimension or
\* creation time is not positive, or an upsertIndexMeta call with a blank key
InvalidDbInput ==
  /\ lastDbCall'.turn # lastDbCall.turn
  /\ \/ lastDbCall'.op = "upsertEmbeddings" /\ \E n \in lastDbCall'.numbers : n[1] <= 0 \/ n[2] <= 0
     \/ lastDbCall'.op = "upsertIndexMeta" /\ lastDbCall'.key \in {"", " "}

\* the step is an addChatMessage call with a blank message id or session id
InvalidChatInput ==
  /\ lastChatOp' # lastChatOp
  /\ lastChatOp'.op = "addChatMessage"
  /\ lastChatOp'.id = "" \/ lastChatOp'.sessionId = ""

NothingWritten ==
  /\ db' = db
  /\ chat' = chat
  /\ chatExport' = chatExport
  /\ UNCHANGED <<opfsFile, localStorageBytes, storageMode, dbCalls>>
  /\ UNCHANGED <<vectorIndexCache, vectorIndexCacheCount>>
  /\ UNCHANGED <<pendingEmbeddingsSinceCheckpoint, pendingEmbeddingsStartedAt, lastEmbeddingCheckpointAt>>
  /\ UNCHANGED <<writtenSinceExport, exportIsCurrent>>

RejectedStep ==
  /\ InvalidDbInput => (lastDbCall'.rejected /\ NothingWritten)
  /\ InvalidChatInput => (lastChatOp'.outcome = "raised" /\ lastChatOp'.heals = 0 /\ lastChatOp'.retries = 0 /\ NothingWritten)

\* a message without an id or without a session id is turned down on any
\* tables, whatever else is wrong with the call
BlankMessageRaises ==
  chatOpened =>
    \A id \in MessageIds \cup {" "}, sessionId \in SessionIds \cup {" "}, fault \in {"none", "ensureRetry", "message"} :
      (TRIM(id) = "" \/ TRIM(sessionId) = "") =>
        addChatMessage(chat, id, sessionId, "user", 0, 2, fault, FailAt(fault)) = Written("raised", chat, 0, 0, FALSE, NoChat)

\* C25: addChatMessage with a blank message id or session id, upsertEmbeddings
\* with a record whose dimension or creation time is not a positive number,
\* and upsertIndexMeta with a blank key raise at once: no row is written, no
\* session is created, nothing is healed or retried, and the checkpoint
\* state stays as it was.
C25_InvalidInputRaisesWithoutWriting == []BlankMessageRaises /\ [][RejectedStep]_vars

\* a batch of a good and a bad record has been turned down on a database
\* with work in progress, and so has a message without a session id
C25_Witness ==
  /\ lastDbCall.op = "upsertEmbeddings"
  /\ lastDbCall.rejected
  /\ lastDbCall.numbers = {<<1, 1>>, <<1, 0>>}
  /\ pendingEmbeddingsSinceCheckpoint > 0
  /\ lastChatOp.op = "addChatMessage"
  /\ lastChatOp.id = "m1"
  /\ lastChatOp.sessionId = ""
  /\ lastChatOp.outcome = "raised"
  /\ db.indexMeta # {}


\* ------------------------------------------------------------------------
\* C26
\* ------------------------------------------------------------------------
StoredChunkIds == {row.id : row \in chunkRows}

RowsOf(repoId) == {row \in chunkRows : row.repoId = repoId}

\* the ids of the chunks of a chunked repository are '{repoId}:0' to
\* '{repoId}:{n - 1}', n being the number of its windows
IdsNumberedFromZero ==
  \A repoId \in DOMAIN chunkedAs :
    chunkedAs[repoId] # NotChunked =>
      /\ Cardinality(RowsOf(repoId)) = Len(ChunkWindows(chunkedAs[repoId]))
      /\ {row.id : row \in RowsOf(repoId)} = {ToString(repoId) \o ":" \o ToString(index) : index \in 0..(Cardinality(RowsOf(repoId)) - 1)}

RechunkKeepsIds ==
  lastChunkCall' = "rechunk" =>
    /\ {row.id : row \in chunkRows'} = StoredChunkIds
    /\ Cardinality(chunkRows') = Cardinality(chunkRows)

\* C26: chunking is deterministic with ids '{repoId}:{index}' for index
\* 0..n-1, so chunking an unchanged repository again and upserting the chunks
\* leaves the number and the set of the stored chunk ids as they were.
C26_RechunkKeepsChunkIds == []IdsNumberedFromZero /\ [][RechunkKeepsIds]_vars

\* a repository of 182 chunks has been chunked again at a later time, next
\* to the chunks of another repository
C26_Witness ==
  /\ lastChunkCall = "rechunk"
  /\ Cardinality(RowsOf(1)) = 182
  /\ \A row \in RowsOf(1) : row.createdAt = 2
  /\ Cardinality(RowsOf(11)) = 2
  /\ \A row \in RowsOf(11) : row.createdAt = 1


\* ------------------------------------------------------------------------
\* C27
\* ------------------------------------------------------------------------
GetInstanceSettled == getInstanceCall.pc = "settled"

\* webgpu was preferred, the probe reported support and the initialisation
\* of webgpu succeeded
WebgpuWorked ==
  /\ getInstanceCall.preferred = "webgpu"
  /\ getInstanceCall.probed \in NavigatorLikes
  /\ probeWebGpuSupport(getInstanceCall.probed).ok
  /\ getInstanceCall.webgpuInit = "succeeded"

ProbeNeverThrows == \A navigatorLike \in NavigatorLikes : ~probeWebGpuSupport(navigatorLike).threw

ReasonIffFellBack == (fallbackReason # Null) <=> (getInstanceCall.preferred = "webgpu" /\ selectedBackend = "wasm")

\* C27: webgpu is selected only if it was preferred, the probe reported
\* support and its initialisation succeeded; in every other case wasm is
\* selected; a fallback reason is recorded exactly when webgpu was preferred
\* but wasm was selected; the probe never throws.
C27_BackendSelected ==
  GetInstanceSettled =>
    /\ selectedBackend = "webgpu" => WebgpuWorked
    /\ ~WebgpuWorked => selectedBackend = "wasm"
    /\ ReasonIffFellBack
    /\ ProbeNeverThrows

\* C27 as amended: the same for every call that hands back a pipeline; when
\* wasm cannot be initialised either, the call throws, no backend is
\* selected and the error is recorded as the reason.
C27_BackendSelectedWhenReturned ==
  GetInstanceSettled =>
    /\ selectedBackend = "webgpu" => WebgpuWorked
    /\ getInstanceCall.outcome = "returned" => (~WebgpuWorked => selectedBackend = "wasm")
    /\ getInstanceCall.outcome = "returned" => ReasonIffFellBack
    /\ getInstanceCall.outcome = "threw" => (selectedBackend = Null /\ fallbackReason # Null)
    /\ ProbeNeverThrows

\* webgpu was preferred and supported, its initialisation failed, and wasm
\* was selected with the reason recorded
C27_Witness ==
  /\ GetInstanceSettled
  /\ getInstanceCall.outcome = "returned"
  /\ getInstanceCall.preferred = "webgpu"
  /\ getInstanceCall.probed = "supported"
  /\ getInstanceCall.webgpuInit = "failed"
  /\ selectedBackend = "wasm"
  /\ fallbackReason = "webgpu init failed: Failed to fetch"
  /\ posted.status = "error"


\* ------------------------------------------------------------------------
\* C28
\* ------------------------------------------------------------------------
Ascending(items) == \A i, j \in DOMAIN items : i < j => ~ComesBefore(items[j], items[i])

Members(items) == {items[i] : i \in DOMAIN items}

ListedExactlySorted ==
  listedMessages.done =>
    /\ Members(listedMessages.items) = {row \in Members(messageStore) : row.sessionId = listedMessages.sessionId}
    /\ Len(listedMessages.items) = Cardinality(Members(listedMessages.items))
    /\ Ascending(listedMessages.items)
    /\ sortChatMessages(listedMessages.items).result = listedMessages.items

SortedSameOrder ==
  sortedMessages.done =>
    /\ Ascending(sortedMessages.result)
    /\ Members(sortedMessages.result) = Members(sortedMessages.input)
    /\ Len(sortedMessages.result) = Len(sortedMessages.input)
    /\ sortedMessages.messages = sortedMessages.input
    /\ \A sessionId \in {"s1", "s2"} : sortedMessages.input = RowsOfSession(messageStore, sessionId) => sortedMessages.result = listChatMessages(messageStore, sessionId)

\* C28: listChatMessages(sessionId) returns exactly the stored messages of
\* that session, sorted ascending by creation time and then by sequence
\* number (never by id), and sortChatMessages yields the same order without
\* modifying its input.
C28_MessagesByTimeThenSequence == ListedExactlySorted /\ SortedSameOrder

\* three messages of one session stored in the order m3, m1, m2 come back as
\* m2 (time 1, sequence 2), m3 (time 2, sequence 1), m1 (time 2, sequence 2)
\* from both
C28_Witness ==
  /\ listedMessages.done /\ sortedMessages.done
  /\ listedMessages.sessionId = "s1"
  /\ Len(messageStore) = 3
  /\ messageStore[1] = [id |-> "m3", sessionId |-> "s1", sequence |-> 1, createdAt |-> 2]
  /\ messageStore[2] = [id |-> "m1", sessionId |-> "s1", sequence |-> 2, createdAt |-> 2]
  /\ messageStore[3] = [id |-> "m2", sessionId |-> "s1", sequence |-> 2, createdAt |-> 1]
  /\ listedMessages.items = <<messageStore[3], messageStore[1], messageStore[2]>>
  /\ sortedMessages.result = listedMessages.items
  /\ sortedMessages.input = messageStore


\* ------------------------------------------------------------------------
\* C29
\* ------------------------------------------------------------------------
StoredVector(chunkId) == blobToFloat32(embeddingRows[chunkId].vectorBlob)

AllZero(vec) == \A i \in DOMAIN vec : vec[i] = 0

UnitNorm(vec) == SumSquares(vec) = One * One

ClearCompletes == \E k \in DbCallIds : dbCalls[k].after = "cleared" /\ dbCalls'[k].state = "idle"

NoRows == Tables(db) = Tables(EmptyDb) /\ chat.sessions.rows = {} /\ chat.messages.rows = {}

FindsNothing == ensureVectorIndexCache(vectorIndexCache, vectorIndexCacheCount, db).vectors = <<>>

CheckpointReset == pendingEmbeddingsSinceCheckpoint = 0 /\ lastEmbeddingCheckpointAt = NoCheckpointYet

OnlyEmptyStored ==
  /\ StableSnapshot = export(EmptyDb)
  /\ chatOpened => (chatExport.sessions.rows = {} /\ chatExport.messages.rows = {})


\* C30: After clearAllData has completed, the store holds no repositories,
\* chunks, embeddings, index metadata, chat sessions or chat messages,
\* findSimilar returns an empty list, the checkpoint state is reset (pending
\* count 0, no last checkpoint time), and stable storage contains only the
\* empty store.
C30_ClearedEverything == [][ClearCompletes => (NoRows' /\ FindsNothing' /\ CheckpointReset' /\ OnlyEmptyStored')]_vars


\* ------------------------------------------------------------------------
\* C31
\* ------------------------------------------------------------------------
SnapshotHoldsEveryEmbedding ==
  \A id \in EmbeddingIds :
    db.embeddings[id] # NoRow => StableSnapshot.tables.embeddings[id] = db.embeddings[id]

\* C31: the pending-embedding counter never under-counts: whenever it is 0
\* and no export is in flight, the last snapshot exported to stable storage
\* contains every embedding currently in the store, also when a forced flush
\* (page hide, end of run) overlaps an upsertEmbeddings call.
C31_PendingNeverUnderCounts ==
  (pendingEmbeddingsSinceCheckpoint = 0 /\ AllDbCallsIdle) => SnapshotHoldsEveryEmbedding


\* ------------------------------------------------------------------------
\* C32
\* ------------------------------------------------------------------------
CompletedOnSnapshot == cycle.pc = "idle" /\ cycle.outcome = "completed" /\ cycle.remote = remoteRepos

\* C32: sync reaches a fixed point: after a sync cycle has completed without
\* error, planning again against the same remote snapshot yields no removed
\* ids and no candidate ids.
C32_SyncFixedPoint ==
  CompletedOnSnapshot =>
    /\ buildSyncPlan(localRepos, remoteRepos).removedRepoIds = <<>>
    /\ buildSyncPlan(localRepos, remoteRepos).candidateRepoIds = <<>>


\* ------------------------------------------------------------------------
\* C33
\* ------------------------------------------------------------------------
\* C33: whenever no sync cycle is running, every repository stored in the
\* persistence layer has at least one stored chunk, including after a cycle
\* that failed or was interrupted between storing the repositories, deleting
\* their old chunks and storing the new chunks.
C33_EveryRepoHasAChunk ==
  cycle.pc = "idle" => \A i \in DOMAIN localRepos : repoChunks[localRepos[i].id] >= 1


\* ------------------------------------------------------------------------
\* C34
\* ------------------------------------------------------------------------
\* an upsertEmbeddings call of this step that throws
UpsertEmbeddingsFails ==
  /\ lastDbCall'.turn # lastDbCall.turn
  /\ lastDbCall'.op = "upsertEmbeddings"
  /\ lastDbCall'.rejected

CounterUnchanged == pendingEmbeddingsSinceCheckpoint' = pendingEmbeddingsSinceCheckpoint

\* no row of the embeddings table is new or has changed
NothingStored == \A id \in EmbeddingIds : db'.embeddings[id] \in {db.embeddings[id], NoRow}

OwnResults(texts) == [i \in DOMAIN texts |-> [embedding |-> VectorOf(texts[i]), error |-> Null]]

SettledAtMostOnce == \A id \in RequestIds : promises[id].settled <= 1

SettledWithOwnResult ==
  \A id \in RequestIds :
    /\ promises[id].state = "resolved" => promises[id].value = OwnResults(promises[id].texts)
    /\ promises[id].state = "rejected" => promises[id].value = <<"Embedding worker failed">>
    /\ promises[id].state = "pending" <=> id \in pendingJobs

\* the response handled in this step settles the request of its id and
\* leaves every other request as it was
OnlyOwnRequestSettled ==
  \A response \in workerOutbox :
    workerOutbox' = workerOutbox \ {response} =>
      /\ pendingJobs' = pendingJobs \ {response.id}
      /\ \A id \in RequestIds :
           (id # response.id \/ id \notin pendingJobs) => promises'[id] = promises[id]
      /\ response.id \in pendingJobs =>
           /\ promises'[response.id].settled = 1
           /\ promises'[response.id].state = IF response.status = "complete" THEN "resolved" ELSE "rejected"

\* C35: each request sent to a worker is settled at most once and only by the
\* response carrying its own request id: with several requests outstanding
\* on one Embedder, responses arriving in any order settle their own
\* requests with their own results, and a response with an unknown or
\* already settled id changes no pending request.
C35_SettledOnceByOwnResponse ==
  /\ [](SettledAtMostOnce /\ SettledWithOwnResult)
  /\ [][OnlyOwnRequestSettled]_vars

\* the second request was answered first and has its own result, the first
\* is still pending, and a second response to the settled request and one
\* with an unknown id are on their way
C35_Witness ==
  /\ promises[2].state = "resolved"
  /\ promises[2].texts = <<2, 1>>
  /\ promises[2].value = OwnResults(<<2, 1>>)
  /\ promises[1].state = "pending"
  /\ promises[1].texts = <<1>>
  /\ \E r1, r2 \in workerOutbox : r1.id = 2 /\ r2.id = UnknownId


\* ------------------------------------------------------------------------
\* C36
\* ------------------------------------------------------------------------
Settled(c) == calls[c].state \in {"resolved", "rejected"}

\* C36: the worker pool never deadlocks: every embedBatch call eventually
\* settles, given that each live worker eventually answers every request it
\* received, and a call that is in flight when terminate() is invoked still
\* settles rather than waiting forever.
C36_EveryCallSettles ==
  \A c \in CallIds : (calls[c].state \notin {"idle", "resolved", "rejected"}) ~> Settled(c)


\* ------------------------------------------------------------------------
\* C37
\* ------------------------------------------------------------------------
EmbeddingsOfChunk(c) == {id \in EmbeddingIds : db.embeddings[id] # NoRow /\ db.embeddings[id].chunkId = c}

\* what findSimilar ranks: the rows ensureVectorIndexCache reads
RankedRows == ensureVectorIndexCache(vectorIndexCache, vectorIndexCacheCount, db).vectors

\* C37: after any sequence of sync and embedding runs, including embedding
\* runs that overlap in time, each stored chunk has at most one stored
\* embedding, so findSimilar never returns the same chunk twice.
C37_OneEmbeddingPerChunk ==
  /\ \A c \in db.chunks : Cardinality(EmbeddingsOfChunk(c)) <= 1
  /\ \A i, j \in DOMAIN RankedRows : RankedRows[i].chunkId = RankedRows[j].chunkId => i = j


\* ------------------------------------------------------------------------
\* C38
\* ------------------------------------------------------------------------
Fetching == {w \in DOMAIN readmeCall.workers : readmeCall.workers[w].pc = "fetching"}

\* no repository is handed to two workers, and at most `concurrency`
\* requests are under way
SharedCursor ==
  /\ \A i \in DOMAIN readmeCall.fetches : readmeCall.fetches[i] <= 1
  /\ \A v, w \in Fetching : readmeCall.workers[v].index = readmeCall.workers[w].index => v = w
  /\ Cardinality(Fetching) <= readmeCall.concurrency

MissingOutcomes == {"no content", "404"}

FailedOutcomes == {"500", "429 then throws", "throws"}

RecordsOfRepo(i) == {k \in DOMAIN readmeCall.records : readmeCall.records[k].repoId = ReadmeRepo(i - 1).id}

\* the result holds one record for every repository of the input, a record
\* without text for a missing or failed README, and the counts of both
OneRecordEach ==
  /\ Len(readmeCall.records) = readmeCall.total
  /\ \A i \in 1..readmeCall.total :
       /\ readmeCall.fetches[i] = 1
       /\ Cardinality(RecordsOfRepo(i)) = 1
       /\ \A k \in RecordsOfRepo(i) :
            readmeCall.records[k].missingReadme
              <=> readmeCall.outcomes[i] \in MissingOutcomes \cup FailedOutcomes
  /\ readmeCall.missingCount = Cardinality({i \in 1..readmeCall.total : readmeCall.outcomes[i] \in MissingOutcomes})
  /\ readmeCall.failedCount = Cardinality({i \in 1..readmeCall.total : readmeCall.outcomes[i] \in FailedOutcomes})

\* C38: fetchReadmes handles every input repository exactly once (the shared
\* cursor never hands one repository to two workers and never skips one),
\* runs at most `concurrency` fetches at a time, and, unless aborted, returns
\* exactly one record per input repository, with missing and failed README
\* fetches counted and recorded rather than dropped.
C38_OneRecordPerRepository ==
  /\ SharedCursor
  /\ readmeCall.state = "resolved" => OneRecordEach
  /\ readmeCall.state = "rejected" => readmeCall.aborted

\* three repositories fetched two at a time: the second was answered first,
\* one README is missing and one request failed
C38_Witness ==
  /\ readmeCall.state = "resolved"
  /\ readmeCall.total = 3
  /\ readmeCall.concurrency = 2
  /\ readmeCall.records[1].repoId = 2
  /\ readmeCall.outcomes = <<"404", "content", "throws">>
  /\ readmeCall.missingCount = 1
  /\ readmeCall.failedCount = 1


\* ------------------------------------------------------------------------
\* C39
\* ------------------------------------------------------------------------
WindowLength(w) == w.to - w.from

\* at least one window, none longer than the window size, each starting
\* size - overlap after the one before, and every character in a window
WindowsCoverText ==
  /\ Len(split.chunks) >= 1
  /\ split.length = 0 => split.chunks = <<[from |-> 0, to |-> 0]>>
  /\ \A i \in DOMAIN split.chunks : WindowLength(split.chunks[i]) <= split.size
  /\ \A i \in DOMAIN split.chunks :
       (i + 1) \in DOMAIN split.chunks =>
         split.chunks[i + 1].from - split.chunks[i].from = split.size - split.overlap
  /\ \A p \in 0..(split.length - 1) :
       \E i \in DOMAIN split.chunks : split.chunks[i].from <= p /\ p < split.chunks[i].to

\* C39: window splitting terminates for every text and every length tier and
\* yields at least one window (exactly one, empty, for empty text); each
\* window is at most the tier's window size long, consecutive windows start
\* (size - overlap) characters apart, and together the windows cover every
\* character of the text.
C39_SplitTerminatesAndCovers ==
  /\ [](split.pc = "returned" => WindowsCoverText)
  /\ [](split.pc # "threw")
  /\ (split.pc = "looping") ~> (split.pc = "returned")

\* a text of the middle tier was split into five windows, the last one
\* shorter than the others
C39_Witness ==
  /\ split.pc = "returned"
  /\ split.length = 3001
  /\ split.size = MEDIUM_DOC_CHUNK_SIZE
  /\ Len(split.chunks) = 5
  /\ split.chunks[5] = [from |-> 2600, to |-> 3001]
  /\ split.chunks = splitIntoChunks(3001, MEDIUM_DOC_CHUNK_SIZE, MEDIUM_DOC_OVERLAP)

\* ------------------------------------------------------------------------
\* C40
\* ------------------------------------------------------------------------
ReasonRecorded == downshiftReason # Null

\* C40: the status the pool reports is consistent with its downshift state:
\* getStatus().downshifted is true if and only if a downshift reason is
\* recorded, for every configured pool size, a pool of one worker included.
C40_DownshiftedIffReasonRecorded ==
  getStatus.downshifted <=> ReasonRecorded


====
